---- MODULE Spec2Model ----
(***************************************************************************)
(* Model of the retrieval engine of backend/src/services/faiss:            *)
(*   FaissRAGEngine (engine.py), VectorSearchService (vector.py),          *)
(*   SemanticChunker (core/chunking.py) and DocumentManager (manager.py).  *)
(*                                                                         *)
(* Texts are sequences of sentence identifiers; a chunk "s1 s2" joined by  *)
(* ' ' is the sequence <<s1, s2>>.  Python's None is the empty tuple and a *)
(* present value x is the one-element tuple <<x>>.                         *)
(***************************************************************************)
EXTENDS Integers, Sequences, FiniteSets, TLC

\* ------------------------------------------------------------------ bounds
\* Document ids a caller of the engine passes.
NumDocIds == 2
\* Longest chunk list the model lets an add create.
MaxChunks == 3
\* Engine calls in one run in which a step fails.
MaxFaultyCalls == 1
\* Documents the DocumentManager accepts (10,000 in manager.py:54, scaled
\* down so that the limit is reached).
DocumentLimit == 3
\* Custom document ids a caller of the DocumentManager passes.
NumCustomIds == 1
\* Highest version the model lets update_document reach.
MaxVersion == 2
\* Threads that call add_document concurrently.
NumThreads == 3
\* Longest candidate list handed to a reranker, and largest top_k.
MaxCandidates == 3
\* Last tick of the semantic cache's clock.
MaxTime == 2
\* Entries set before a get cleans up, where the cache's get is exercised.
MaxTtlSets == 2

\* Document contents the callers pass: one sentence, two sentences the
\* semantic chunker merges (the first is shorter than min_chunk_size), two
\* sentences it keeps apart.
Contents == { <<1>>, <<2, 3>>, <<1, 3>> }
DocIds == 1..NumDocIds

\* ------------------------------------------------------------ option type
None == <<>>
Some(x) == <<x>>
IsNone(o) == o = <<>>
Val(o) == o[1]

\* ---------------------------------------------------------------- embedder
\* Dimension reported by embedding_model.get_sentence_embedding_dimension().
Dim == 2

\* The embedding of one sentence: a fixed table standing for the model.
SentVec(s) ==
    CASE s = 1 -> <<2, 0>>
      [] s = 2 -> <<2, 1>>
      [] OTHER -> <<0, 2>>

\* Character length of one sentence.
SentLen(s) ==
    CASE s = 1 -> 120
      [] s = 2 -> 40
      [] OTHER -> 600

RECURSIVE Embed(_)
\* embedding_model.encode(text): a deterministic vector of dimension Dim.
Embed(text) ==
    IF text = <<>> THEN <<0, 0>>
    ELSE LET h == Embed(Tail(text))
             v == SentVec(Head(text))
         IN  <<v[1] + 2 * h[1], v[2] + 2 * h[2]>>

RECURSIVE TextLen(_)
\* len(' '.join(sentences))
TextLen(text) ==
    IF text = <<>> THEN 0
    ELSE IF Len(text) = 1 THEN SentLen(text[1])
    ELSE SentLen(Head(text)) + 1 + TextLen(Tail(text))

\* ------------------------------------------------------- SemanticChunker
\* Configuration defaults read in FaissRAGEngine.__init__ (engine.py:68-70);
\* the threshold 0.5 is kept as the fraction ThresholdNum / ThresholdDen.
ThresholdNum == 1
ThresholdDen == 2
max_chunk_size == 1000
min_chunk_size == 100

Dot(a, b) == a[1] * b[1] + a[2] * b[2]

\* cosine(a, b) >= threshold, in integers: dot/(|a||b|) >= Num/Den.
SimilarityAtLeastThreshold(a, b) ==
    /\ Dot(a, b) > 0
    /\ ThresholdDen * ThresholdDen * Dot(a, b) * Dot(a, b)
         >= ThresholdNum * ThresholdNum * Dot(a, a) * Dot(b, b)

\* _split_sentences: the sentences of a text, each a one-sentence text.
SplitSentences(text) == [i \in 1..Len(text) |-> <<text[i]>>]

RECURSIVE Join(_)
\* ' '.join(list of texts)
Join(texts) == IF texts = <<>> THEN <<>> ELSE Head(texts) \o Join(Tail(texts))

\* _calculate_similarities, as the truth of similarities[i] >= threshold for
\* the consecutive sentences i and i+1.
SimilarAt(sentences, i) ==
    SimilarityAtLeastThreshold(Embed(sentences[i]), Embed(sentences[i + 1]))

RECURSIVE GroupFrom(_, _, _, _, _)
\* The loop of _group_sentences from sentence i on (1-based), with the
\* current chunk, its length and the chunks closed so far.
GroupFrom(sentences, i, current_chunk, current_length, chunks) ==
    IF i > Len(sentences)
    THEN IF current_chunk # <<>> THEN Append(chunks, Join(current_chunk)) ELSE chunks
    ELSE LET sentence_len == TextLen(sentences[i])
             similar == SimilarAt(sentences, i - 1)
             fits == current_length + sentence_len <= max_chunk_size
             lookahead_veto ==
                 /\ i < Len(sentences)
                 /\ ~similar
                 /\ SimilarAt(sentences, i)
             should_add == similar /\ fits /\ ~lookahead_veto
         IN  IF should_add
             THEN GroupFrom(sentences, i + 1, Append(current_chunk, sentences[i]),
                            current_length + sentence_len, chunks)
             ELSE GroupFrom(sentences, i + 1, <<sentences[i]>>, sentence_len,
                            IF current_chunk # <<>>
                            THEN Append(chunks, Join(current_chunk)) ELSE chunks)

GroupSentences(sentences) ==
    GroupFrom(sentences, 2, <<sentences[1]>>, TextLen(sentences[1]), <<>>)

RECURSIVE MergeFrom(_, _, _)
\* The while loop of _merge_small_chunks from chunk i on.
MergeFrom(chunks, i, merged) ==
    IF i > Len(chunks) THEN merged
    ELSE IF TextLen(chunks[i]) < min_chunk_size /\ i < Len(chunks)
    THEN MergeFrom(chunks, i + 2, Append(merged, chunks[i] \o chunks[i + 1]))
    ELSE MergeFrom(chunks, i + 1, Append(merged, chunks[i]))

MergeSmallChunks(chunks) == MergeFrom(chunks, 1, <<>>)

RECURSIVE ResplitFrom(_, _, _, _, _)
\* The inner loop of _split_large_chunks over the sentences of one chunk.
ResplitFrom(sentences, i, sub_chunk, current_length, result) ==
    IF i > Len(sentences)
    THEN IF sub_chunk # <<>> THEN Append(result, Join(sub_chunk)) ELSE result
    ELSE IF current_length + TextLen(sentences[i]) > max_chunk_size /\ sub_chunk # <<>>
    THEN ResplitFrom(sentences, i + 1, <<sentences[i]>>, TextLen(sentences[i]),
                     Append(result, Join(sub_chunk)))
    ELSE ResplitFrom(sentences, i + 1, Append(sub_chunk, sentences[i]),
                     current_length + TextLen(sentences[i]), result)

RECURSIVE SplitLargeFrom(_, _, _)
SplitLargeFrom(chunks, i, result) ==
    IF i > Len(chunks) THEN result
    ELSE IF TextLen(chunks[i]) <= max_chunk_size
    THEN SplitLargeFrom(chunks, i + 1, Append(result, chunks[i]))
    ELSE SplitLargeFrom(chunks, i + 1,
                        ResplitFrom(SplitSentences(chunks[i]), 1, <<>>, 0, result))

SplitLargeChunks(chunks) == SplitLargeFrom(chunks, 1, <<>>)

\* SemanticChunker.chunk
SemanticChunk(text) ==
    IF text = <<>> THEN <<>>
    ELSE LET sentences == SplitSentences(text)
         IN  IF Len(sentences) = 1 THEN sentences
             ELSE SplitLargeChunks(MergeSmallChunks(GroupSentences(sentences)))

\* ---------------------------------------------------------------- state
VARIABLES
    \* FaissRAGEngine
    documents,        \* self.documents: the chunk list
    index,            \* self.vector_search.index: None or the stored vectors
    dimension,        \* self.vector_search.dimension
    reranker_corpus,  \* the corpus the BM25 reranker was built from, or None
    disk_index,       \* the index file: None (absent) or the vectors written
    disk_meta,        \* the metadata file: None (absent) or the chunk list
    chunk_method,     \* config embeddings.chunk_method
    persist_index,    \* config faiss.persist_index
    reranker_method,  \* "none" (reranker disabled) or "bm25"
    e_last,           \* the last engine call: operation, argument, outcome and
                      \* the chunk count it returns (add) or logs (remove)
    faulty_calls,     \* the engine calls so far in which a step was made to fail
    distance_threshold,  \* config faiss.distance_threshold, None when unset
    \* one caller of FaissRAGEngine.search
    s_pc,             \* "idle", or "mapping" between the index read and the mapping
    s_query,          \* the query text
    s_hits,           \* search_results: the (idx, score) pairs read from the index
    s_results,        \* the list the last search returned
    \* DocumentManager
    m_documents,      \* self.documents: doc_id -> document
    m_disk,           \* the storage file: None (absent) or the map written
    m_last,           \* the last manager call: operation, id, outcome
    m_faulty_calls,   \* the manager calls so far whose _save_documents failed
    \* threads that each add one document, as the create endpoint does
    m_lock,           \* DocumentManager._lock: 0 when free, else its holder
    index_lock,       \* FaissRAGEngine._index_lock: 0 when free, else its holder
    t_pc,             \* where each thread is
    t_doc,            \* the id of the document each thread has added, or None
    \* one call of a reranker's rerank(query, results, top_k, score_threshold)
    rr_pc,            \* "ready" before the call, "done" after it, "idle" if none
    rr_method,        \* "cross_encoder", "bm25", "hybrid" or "mmr"
    rr_query,         \* query
    rr_results,       \* results: the candidates' texts, in the given order
    rr_corpus,        \* the documents the BM25 reranker was built from (texts)
    rr_top_k,         \* top_k
    rr_score_threshold,  \* score_threshold, None when not given
    rr_out,           \* the list rerank returned
    \* SemanticCache
    c_cache,          \* self.cache in dict order: hash, emb, result, timestamp, ttl
    c_embeddings,     \* self.embeddings: (query_hash, embedding) pairs
    c_now,            \* time.time()
    c_last,           \* the last call: op, query, hit and result (get), and the
                      \* number of entries _evict_oldest removed (set)
    \* SearchOrchestrator: one event loop, one caller of parallel_search
    o_cfg,            \* web_search kind, query_optimizer kind, xAI collection
    o_pc,             \* parallel_search: "idle", "gathering", "returned", "raised"
    o_multi,          \* whether the call passes two sub_queries
    o_calls,          \* calls of parallel_search so far
    o_loop,           \* the task the event loop is running, or "none"
    o_ready,          \* the loop's queue of tasks ready to run
    o_ret,            \* the pair parallel_search returned, or None
    o_web_cache,      \* cache.get_web_results(query): None or the cached list
    o_rag_cache,      \* cache.get_rag_results(query): None or the cached list
    w_pc,             \* where the task of _search_web is
    w_queries,        \* web_queries still to execute
    w_all,            \* all_results
    w_result,         \* what _search_web returned
    w_trace,          \* the collaborators _search_web has used, in order
    w_failed,         \* the web queries whose search raised
    r_pc,             \* where the task of _search_rag is
    r_queries,        \* sub-queries still to execute
    r_all,            \* all_results
    r_result,         \* what _search_rag returned
    r_failed,         \* the sub-queries whose search raised
    r_empty,          \* the sub-queries whose search found nothing
    \* FixedChunker: one chunker and one call of chunk
    fc_pc,            \* "new", "constructed", "raised" (by __init__), "chunked"
    fc_size,          \* chunk_size
    fc_overlap,       \* chunk_overlap
    fc_text,          \* the text, a string of letters and spaces
    fc_chunks,        \* the list chunk(text) returned
    \* WebSearchAgent: one stage of the result pipeline applied to one list
    p_pc,             \* "input", or the stage that produced p_out
    p_temporal,       \* classification['temporal'] of the query
    p_in,             \* the result list handed to the stage
    p_out,            \* the list the stage returned
    \* WebSearchAgent.search: the web queries of one call, one after the other
    ag_service,       \* whether web_search.search is a plain function or a coroutine function
    ag_pc,            \* "idle", "ready", "attempt", "sleeping" (asyncio.sleep) or "done"
    ag_strategy,      \* "parallel" or "decomposed"; "none" before the call
    ag_todo,          \* queries still to execute, the current one included
    ag_attempt,       \* attempt of _with_retry's loop
    ag_calls,         \* outcomes of the web_search.search calls for the query
    ag_slept,         \* the delays slept between them, in seconds
    ag_done,          \* per finished query: its calls, its delays, its status
    \* RateLimiter: one limiter, coroutines of one event loop calling acquire
    l_now,            \* time.time()
    l_requests,       \* self.requests: the timestamps granted
    l_lock,           \* self.lock: 0 when free, else the caller holding it
    l_waiters,        \* the callers waiting for self.lock, first come first
    l_pc,             \* where each caller is
    l_wake,           \* when each sleeping caller's asyncio.sleep ends
    \* SemanticCache called from several threads
    ct_pc,            \* where each thread is inside its call
    ct_call,          \* each thread's call: op, query, result, outcome
    ct_local,         \* each thread's local variables inside its call
    ct_lin,           \* the cache states the calls so far give when run one at a time
    ct_calls          \* calls started so far

engineVars == <<documents, index, dimension, reranker_corpus, disk_index,
                disk_meta, chunk_method, persist_index, reranker_method, e_last,
                faulty_calls, distance_threshold>>
searchVars == <<s_pc, s_query, s_hits, s_results>>

managerVars == <<m_documents, m_disk, m_last, m_faulty_calls>>
threadVars == <<m_lock, index_lock, t_pc, t_doc>>

rerankVars == <<rr_pc, rr_method, rr_query, rr_results, rr_corpus, rr_top_k,
                rr_score_threshold, rr_out>>
\* The services around the engine, which the engine's operations leave alone.
cacheVars == <<c_cache, c_embeddings, c_now, c_last>>
orchVars == <<o_cfg, o_pc, o_multi, o_calls, o_loop, o_ready, o_ret,
              o_web_cache, o_rag_cache>>
webTaskVars == <<w_pc, w_queries, w_all, w_result, w_trace, w_failed>>
ragTaskVars == <<r_pc, r_queries, r_all, r_result, r_failed, r_empty>>
chunkerVars == <<fc_pc, fc_size, fc_overlap, fc_text, fc_chunks>>
pipelineVars == <<p_pc, p_temporal, p_in, p_out>>
\* The web search agent and the clients of the language model.
retryVars == <<ag_service, ag_pc, ag_strategy, ag_todo, ag_attempt, ag_calls, ag_slept, ag_done>>
limiterVars == <<l_now, l_requests, l_lock, l_waiters, l_pc, l_wake>>
cacheThreadVars == <<ct_pc, ct_call, ct_local, ct_lin, ct_calls>>
peripheralVars == <<pipelineVars, retryVars, limiterVars, cacheThreadVars>>
serviceVars == <<rerankVars, cacheVars, orchVars, webTaskVars, ragTaskVars, chunkerVars,
                 peripheralVars>>

vars == <<engineVars, searchVars, managerVars, threadVars, serviceVars>>

\* Points at which a step of an engine operation can fail:
\*   rebuild_embed   embedding_model.encode in build_index
\*   rebuild_append  index.add in build_index
\*   chunk       chunker.chunk (the sentence encoding of the semantic chunker)
\*   embed       embedding_model.encode in add_vectors
\*   append      index.add in add_vectors
\*   rerank      the reranker constructor in _rebuild_reranker
\*   save_index  faiss.write_index in VectorSearchService.save_index
\*   save_meta   writing the metadata file in FaissRAGEngine.save_index
\* An exception ends the try block, so one call meets at most one of them.
AddFaults == {"none", "chunk", "embed", "append", "rerank", "save_index", "save_meta"}
RemoveFaults == {"none", "rebuild_embed", "rebuild_append", "rerank", "save_index",
                 "save_meta"}
UpdateFaults == AddFaults \cup RemoveFaults
SaveFaults == {"none", "save_index", "save_meta"}

\* The mutable part of the engine, as the record the operations transform;
\* exc is set when an exception is propagating, in_handler when it was raised
\* by the except branch itself, in place of the original one.
EngineState ==
    [documents |-> documents, index |-> index, dimension |-> dimension,
     reranker_corpus |-> reranker_corpus, disk_index |-> disk_index,
     disk_meta |-> disk_meta, exc |-> FALSE, in_handler |-> FALSE]

Raise(st) == [st EXCEPT !.exc = TRUE]

Texts(docs) == [i \in 1..Len(docs) |-> docs[i].text]
EmbedAll(texts) == [i \in 1..Len(texts) |-> Embed(texts[i])]
IndexSize(ix) == IF IsNone(ix) THEN 0 ELSE Len(Val(ix))
\* The vectors an index (or an index file) holds; none when there is no index.
IndexVectors(ix) == IF IsNone(ix) THEN <<>> ELSE Val(ix)

\* The chunks add_document_to_index and _add_document_no_lock index:
\* chunker.chunk(content) if chunk_method == 'semantic' else [content].
ChunksOf(content) ==
    IF chunk_method = "semantic" THEN SemanticChunk(content) ELSE <<content>>

\* The chunker call can fail only where it encodes (two sentences or more).
ChunkStep(st, content, f) ==
    IF st.exc THEN st
    ELSE IF chunk_method = "semantic" /\ Len(content) > 1 /\ f = "chunk" THEN Raise(st)
    ELSE st

\* add_vectors putting the new vectors in front of the stored ones.
AddVectorsInFront(st, texts, f) ==
    IF st.exc THEN st
    ELSE IF IsNone(st.index) THEN Raise(st)
    ELSE IF f = "embed" \/ f = "append" \/ texts = <<>> THEN Raise(st)
    ELSE [st EXCEPT !.dimension = Some(Dim),
                    !.index = Some(EmbedAll(texts) \o Val(st.index))]

\* VectorSearchService.add_vectors
AddVectors(st, texts, f) ==
    IF st.exc THEN st
    ELSE IF IsNone(st.index) THEN Raise(st)
    ELSE LET s1 == IF IsNone(st.dimension)
                   THEN [st EXCEPT !.dimension = Some(Dim)] ELSE st
         IN  IF f = "embed" \/ f = "append" \/ texts = <<>> THEN Raise(s1)
             ELSE [s1 EXCEPT !.index = Some(Val(s1.index) \o EmbedAll(texts))]

\* VectorSearchService.build_index
BuildIndex(st, texts, f) ==
    IF st.exc THEN st
    ELSE IF texts = <<>> \/ f = "rebuild_embed" THEN Raise(st)
    ELSE IF f = "rebuild_append"
    THEN Raise([st EXCEPT !.dimension = Some(Dim), !.index = Some(<<>>)])
    ELSE [st EXCEPT !.dimension = Some(Dim), !.index = Some(EmbedAll(texts))]

\* The document records appended for the chunks of one document.
ChunkRecords(chunks, doc_id) ==
    [i \in 1..Len(chunks) |-> [text |-> chunks[i], doc_id |-> doc_id, chunk_id |-> i - 1]]

AppendChunks(st, chunks, doc_id) ==
    IF st.exc THEN st
    ELSE [st EXCEPT !.documents = st.documents \o ChunkRecords(chunks, doc_id)]

\* FaissRAGEngine._rebuild_reranker
RebuildReranker(st, f) ==
    IF st.exc THEN st
    ELSE IF reranker_method = "none" \/ st.documents = <<>> THEN st
    ELSE IF f = "rerank" THEN Raise(st)
    ELSE [st EXCEPT !.reranker_corpus = Some(Texts(st.documents))]

\* VectorSearchService.save_index
SaveVectorIndex(st, f) ==
    IF st.exc \/ IsNone(st.index) THEN st
    ELSE IF f = "save_index" THEN Raise(st)
    ELSE [st EXCEPT !.disk_index = Some(Val(st.index))]

\* FaissRAGEngine.save_index
SaveIndex(st, f) ==
    IF st.exc \/ ~persist_index THEN st
    ELSE LET s1 == SaveVectorIndex(st, f)
         IN  IF s1.exc THEN s1
             ELSE IF f = "save_meta" THEN Raise(s1)
             ELSE [s1 EXCEPT !.disk_meta = Some(s1.documents)]

\* [doc for doc in self.documents if doc['metadata']['doc_id'] != doc_id]
WithoutDoc(docs, doc_id) == SelectSeq(docs, LAMBDA d : d.doc_id # doc_id)

\* faiss.IndexFlatL2(self.vector_search.dimension)
EmptyIndex(st) ==
    IF st.exc THEN st
    ELSE IF IsNone(st.dimension) THEN Raise(st)
    ELSE [st EXCEPT !.index = Some(<<>>)]

\* FaissRAGEngine.add_document_to_index, from the lock to the return or raise.
AddDocumentToIndex(st, content, doc_id, f) ==
    LET original_docs == st.documents
        original_index == st.index
        s0 == IF IsNone(st.index)
              THEN [st EXCEPT !.dimension = Some(Dim), !.index = Some(<<>>)]
              ELSE st
        chunks == ChunksOf(content)
        s1 == ChunkStep(s0, content, f)
        s2 == AddVectors(s1, chunks, f)
        s3 == AppendChunks(s2, chunks, doc_id)
        s4 == RebuildReranker(s3, f)
        s5 == SaveIndex(s4, f)
    IN  IF s5.exc
        THEN [s5 EXCEPT !.documents = original_docs,
                        !.index = IF ~IsNone(original_index)
                                  THEN original_index ELSE s5.index]
        ELSE s5

\* FaissRAGEngine._remove_document_no_lock
RemoveDocumentNoLock(st, doc_id, f) ==
    IF st.exc THEN st
    ELSE LET original_count == Len(st.documents)
             s1 == [st EXCEPT !.documents = WithoutDoc(st.documents, doc_id)]
         IN  IF Len(s1.documents) < original_count
             THEN IF s1.documents # <<>>
                  THEN BuildIndex(s1, Texts(s1.documents), f)
                  ELSE EmptyIndex(s1)
             ELSE s1

\* FaissRAGEngine._add_document_no_lock
AddDocumentNoLock(st, content, doc_id, f) ==
    LET chunks == ChunksOf(content)
        s1 == ChunkStep(st, content, f)
        s2 == AddVectors(s1, chunks, f)
        s3 == AppendChunks(s2, chunks, doc_id)
        s4 == RebuildReranker(s3, f)
    IN  SaveIndex(s4, f)

\* FaissRAGEngine.update_document_in_index; f is the failure, if any, inside
\* the try block and f2 that of the save_index call of the except branch.
UpdateDocumentInIndex(st, doc_id, content, f, f2) ==
    LET original_docs == st.documents
        original_index == IF ~IsNone(st.index) /\ IndexSize(st.index) > 0
                          THEN st.index ELSE None
        s1 == RemoveDocumentNoLock(st, doc_id, f)
        s2 == AddDocumentNoLock(s1, content, doc_id, f)
    IN  IF s2.exc
        THEN LET r == [s2 EXCEPT !.documents = original_docs,
                                 !.index = IF ~IsNone(original_index)
                                           THEN original_index ELSE s2.index,
                                 !.exc = FALSE]
                 saved == SaveIndex(r, f2)
             IN  [saved EXCEPT !.exc = TRUE, !.in_handler = saved.exc]
        ELSE s2

\* FaissRAGEngine.remove_document_from_index
RemoveDocumentFromIndex(st, doc_id, f) ==
    LET original_docs == st.documents
        s1 == [st EXCEPT !.documents = WithoutDoc(st.documents, doc_id)]
    IN  IF Len(s1.documents) = Len(original_docs) THEN s1
        ELSE LET s2 == IF s1.documents # <<>>
                       THEN BuildIndex(s1, Texts(s1.documents), f)
                       ELSE EmptyIndex(s1)
                 s3 == RebuildReranker(s2, f)
                 s4 == SaveIndex(s3, f)
             IN  IF s4.exc THEN [s4 EXCEPT !.documents = original_docs] ELSE s4

\* ------------------------------------------------------- engine actions
\* Writes an operation's resulting state back to the variables.
Commit(st, op, doc_id, ret, faulty) ==
    /\ faulty => faulty_calls < MaxFaultyCalls
    /\ faulty_calls' = IF faulty THEN faulty_calls + 1 ELSE faulty_calls
    /\ documents' = st.documents
    /\ index' = st.index
    /\ dimension' = st.dimension
    /\ reranker_corpus' = st.reranker_corpus
    /\ disk_index' = st.disk_index
    /\ disk_meta' = st.disk_meta
    /\ e_last' = [op |-> op, doc_id |-> doc_id,
                  outcome |-> IF st.in_handler THEN "raised_in_handler"
                              ELSE IF st.exc THEN "raised" ELSE "returned",
                  ret |-> IF st.exc THEN 0 ELSE ret]
    /\ UNCHANGED <<chunk_method, persist_index, reranker_method, distance_threshold>>

\* A call of add_document_to_index(content, doc_id) in which the step f fails.
EngineAdd(content, doc_id, f) ==
    /\ Len(documents) + Len(ChunksOf(content)) <= MaxChunks
    /\ IndexSize(index) + Len(ChunksOf(content)) <= MaxChunks
    /\ Commit(AddDocumentToIndex(EngineState, content, doc_id, f),
              "add", doc_id, Len(ChunksOf(content)), f # "none")

\* A call of update_document_in_index(doc_id, content).
EngineUpdate(doc_id, content, f, f2) ==
    /\ Len(WithoutDoc(documents, doc_id)) + Len(ChunksOf(content)) <= MaxChunks
    /\ IndexSize(index) + Len(ChunksOf(content)) <= MaxChunks + 1
    /\ Commit(UpdateDocumentInIndex(EngineState, doc_id, content, f, f2),
              "update", doc_id, 0, f # "none" \/ f2 # "none")

\* A call of remove_document_from_index(doc_id).
EngineRemove(doc_id, f) ==
    /\ doc_id \in DocIds
    /\ Commit(RemoveDocumentFromIndex(EngineState, doc_id, f), "remove", doc_id,
              Len(documents) - Len(WithoutDoc(documents, doc_id)), f # "none")

\* The engine after construction, whatever its configuration.
EngineStart ==
    /\ documents = <<>>
    /\ index = None
    /\ dimension = None
    /\ reranker_corpus = None
    /\ disk_index = None
    /\ disk_meta = None
    /\ chunk_method \in {"fixed", "semantic"}
    /\ persist_index \in BOOLEAN
    /\ reranker_method \in {"none", "bm25"}
    /\ e_last = [op |-> "init", doc_id |-> 0, outcome |-> "returned", ret |-> 0]
    /\ faulty_calls = 0

\* The engine under a configuration that sets no distance threshold.
EngineInit ==
    /\ EngineStart
    /\ distance_threshold = None

SearchInit ==
    /\ s_pc = "idle"
    /\ s_query = <<>>
    /\ s_hits = <<>>
    /\ s_results = <<>>

ManagerInit ==
    /\ m_documents = <<>>
    /\ m_disk = None
    /\ m_last = [op |-> "init", doc_id |-> 0, outcome |-> "returned"]
    /\ m_faulty_calls = 0

ThreadInit ==
    /\ m_lock = 0
    /\ index_lock = 0
    /\ t_pc = [t \in 1..NumThreads |-> "start"]
    /\ t_doc = [t \in 1..NumThreads |-> None]

\* No reranker call is under way.
RerankIdle ==
    /\ rr_pc = "idle"
    /\ rr_method = "none"
    /\ rr_query = <<>>
    /\ rr_results = <<>>
    /\ rr_corpus = <<>>
    /\ rr_top_k = 0
    /\ rr_score_threshold = None
    /\ rr_out = <<>>

\* SemanticCache.__init__
CacheInit ==
    /\ c_cache = <<>>
    /\ c_embeddings = <<>>
    /\ c_now = 0
    /\ c_last = [op |-> "init", query |-> <<>>, hit |-> FALSE, result |-> 0,
                 evicted |-> 0]

\* No task of the orchestrator exists.
TasksIdle ==
    /\ o_pc = "idle"
    /\ o_multi = FALSE
    /\ o_calls = 0
    /\ o_loop = "none"
    /\ o_ready = <<>>
    /\ o_ret = None
    /\ o_web_cache = None
    /\ o_rag_cache = None
    /\ w_pc = "none" /\ w_queries = <<>> /\ w_all = <<>> /\ w_result = <<>>
    /\ w_trace = <<>> /\ w_failed = {}
    /\ r_pc = "none" /\ r_queries = <<>> /\ r_all = <<>> /\ r_result = <<>>
    /\ r_failed = {} /\ r_empty = {}

\* The orchestrator as dependencies.py builds it: WebSearchService, no query
\* optimizer, no xAI collection for the domain.
OrchIdle ==
    /\ o_cfg = [web |-> "service", optimizer |-> "none", xai |-> FALSE]
    /\ TasksIdle

\* No FixedChunker is under study.
ChunkerIdle ==
    /\ fc_pc = "new"
    /\ fc_size = 1
    /\ fc_overlap = 0
    /\ fc_text = <<>>
    /\ fc_chunks = <<>>

\* No result list is in the web search agent's pipeline.
PipelineIdle ==
    /\ p_pc = "input"
    /\ p_temporal = "any"
    /\ p_in = <<>>
    /\ p_out = <<>>

\* WebSearchAgent.search has not been called.
RetryIdle ==
    /\ ag_service = "sync"
    /\ ag_pc = "idle"
    /\ ag_strategy = "none"
    /\ ag_todo = 0
    /\ ag_attempt = 0
    /\ ag_calls = <<>>
    /\ ag_slept = <<>>
    /\ ag_done = <<>>

\* Coroutines that call RateLimiter.acquire.
NumCallers == 4
Callers == 1..NumCallers

\* RateLimiter.__init__
LimiterIdle ==
    /\ l_now = 0
    /\ l_requests = <<>>
    /\ l_lock = 0
    /\ l_waiters = <<>>
    /\ l_pc = [c \in Callers |-> "idle"]
    /\ l_wake = [c \in Callers |-> 0]

\* Threads that call the semantic cache.
NumCacheThreads == 2
CacheThreads == 1..NumCacheThreads

NoCall == [op |-> "none", query |-> <<>>, result |-> 0, outcome |-> "none"]

\* expired_hashes still to delete, expired_hashes, the filtered embeddings
\* list not yet assigned, best_match with best_similarity
NoLocals == [todo |-> <<>>, expired |-> {}, read |-> <<>>, best |-> <<>>]

\* A cache state with the threads whose running call has taken effect.
LinState(cache, embeddings, done) == [cache |-> cache, embeddings |-> embeddings, done |-> done]

\* No thread is inside a call of the cache, which is empty.
CacheThreadsIdle ==
    /\ ct_pc = [t \in CacheThreads |-> "idle"]
    /\ ct_call = [t \in CacheThreads |-> NoCall]
    /\ ct_local = [t \in CacheThreads |-> NoLocals]
    /\ ct_lin = {LinState(<<>>, <<>>, {})}
    /\ ct_calls = 0

PeripheralIdle == PipelineIdle /\ RetryIdle /\ LimiterIdle /\ CacheThreadsIdle

ServiceIdle == RerankIdle /\ CacheInit /\ OrchIdle /\ ChunkerIdle /\ PeripheralIdle

CoreInit == EngineInit /\ SearchInit /\ ManagerInit /\ ThreadInit

Init == CoreInit /\ ServiceIdle

\* The engine and the manager freshly constructed under one configuration
\* and left alone, for the specifications of the services around them.
CoreAtRest ==
    /\ CoreInit
    /\ chunk_method = "fixed"
    /\ persist_index = FALSE
    /\ reranker_method = "none"

\* The engine's mutations, any step of which may fail.
Next ==
    \/ \E c \in Contents, d \in DocIds, f \in AddFaults :
          EngineAdd(c, d, f) /\ UNCHANGED <<serviceVars, searchVars, managerVars, threadVars>>
    \/ \E d \in DocIds, c \in Contents, f \in UpdateFaults, f2 \in SaveFaults :
          EngineUpdate(d, c, f, f2) /\ UNCHANGED <<serviceVars, searchVars, managerVars, threadVars>>
    \/ \E d \in DocIds, f \in RemoveFaults :
          EngineRemove(d, f) /\ UNCHANGED <<serviceVars, searchVars, managerVars, threadVars>>

Spec == Init /\ [][Next]_vars

\* The engine's mutations when no step fails.
NextFailureFree ==
    \/ \E c \in Contents, d \in DocIds :
          EngineAdd(c, d, "none") /\ UNCHANGED <<serviceVars, searchVars, managerVars, threadVars>>
    \/ \E d \in DocIds, c \in Contents :
          EngineUpdate(d, c, "none", "none")
            /\ UNCHANGED <<serviceVars, searchVars, managerVars, threadVars>>
    \/ \E d \in DocIds :
          EngineRemove(d, "none") /\ UNCHANGED <<serviceVars, searchVars, managerVars, threadVars>>

SpecFailureFree == Init /\ [][NextFailureFree]_vars

\* ------------------------------------------------------------------ C1
\* C1: when no step fails, after every add, update and remove the index and
\* the chunk list have the same length and the vector at index position i is
\* the embedding of the chunk text at chunk-list position i.
PositionsAligned ==
    /\ IndexSize(index) = Len(documents)
    /\ \A i \in 1..Len(documents) : Val(index)[i] = Embed(documents[i].text)

\* A remove has dropped the chunks of one document and rebuilt the index
\* from the chunks of another, of which there are two.
PositionsAlignedWitness ==
    /\ e_last.op = "remove"
    /\ e_last.outcome = "returned"
    /\ e_last.ret >= 1
    /\ Len(documents) >= 2

\* ------------------------------------------------------------------ C2
\* C2: whichever step of an add, update or remove fails, the chunk list and
\* the index hold the same number of entries once the call has returned or
\* raised.
LengthsEqualAfterEveryCall == Len(documents) = IndexSize(index)

\* ------------------------------------------------------------------ C3
\* C3: a call of add_document_to_index that raises leaves the chunk list as
\* it was before the call and the index holding exactly the vectors it held
\* before the call, whatever the index was (none yet, empty, populated).
AddRaiseRestoresBoth ==
    [][(e_last'.op = "add" /\ e_last'.outcome = "raised")
         => /\ documents' = documents
            /\ IndexVectors(index') = IndexVectors(index)]_vars

\* ------------------------------------------------------------------ C4
\* C4: a call of update_document_in_index that fails and re-raises the
\* original error (the save_index of its except branch did not fail in turn)
\* has restored the chunk list and the vectors of the index to their values
\* before the call and has persisted them, so that the index file and the
\* metadata file equal the in-memory state.
UpdateRaiseRestoresAndPersists ==
    [][(e_last'.op = "update" /\ e_last'.outcome = "raised")
         => /\ documents' = documents
            /\ IndexVectors(index') = IndexVectors(index)
            /\ persist_index => /\ IndexVectors(disk_index') = IndexVectors(index')
                                /\ disk_meta' = Some(documents')]_vars

\* ------------------------------------------------------------------ C9
\* The doc_ids that have a chunk in the chunk list.
LiveDocIds(docs) == {docs[i].doc_id : i \in 1..Len(docs)}

\* C9: an update for an id without a live document changes neither the chunk
\* list nor the index and creates no chunk for that id.
UpdateOfUnknownIdChangesNothing ==
    [][(e_last'.op = "update" /\ e_last'.doc_id \notin LiveDocIds(documents))
         => /\ documents' = documents
            /\ IndexVectors(index') = IndexVectors(index)]_vars

\* ------------------------------------------------------------------ C10
\* The chunk_id values of the chunks of document d, by position.
ChunkIdsOf(docs, d) == {docs[i].chunk_id : i \in {j \in 1..Len(docs) : docs[j].doc_id = d}}
NumChunksOf(docs, d) == Cardinality({j \in 1..Len(docs) : docs[j].doc_id = d})

\* C10: the chunk ids of every document in the chunk list are exactly
\* 0..n-1 without duplicates, and a removed document leaves no chunk.
ChunkIdsContiguous ==
    /\ \A d \in DocIds : ChunkIdsOf(documents, d) = 0..(NumChunksOf(documents, d) - 1)
    /\ (e_last.op = "remove" /\ e_last.outcome = "returned")
         => e_last.doc_id \notin LiveDocIds(documents)

\* ------------------------------------------------------------- search
\* config faiss.top_k, the number of candidates search asks the index for.
top_k == 2

\* Squared Euclidean distance, the metric of faiss.IndexFlatL2.
L2(a, b) == (a[1] - b[1]) * (a[1] - b[1]) + (a[2] - b[2]) * (a[2] - b[2])

\* Position p comes before position q in the index's answer to query vector qv.
Nearer(vecs, qv, p, q) ==
    \/ L2(qv, vecs[p]) < L2(qv, vecs[q])
    \/ L2(qv, vecs[p]) = L2(qv, vecs[q]) /\ p < q

RECURSIVE NearestFrom(_, _, _, _)
\* index.search: the k nearest of the positions in rest, nearest first, as
\* (idx, distance) pairs with idx counted from 0.
NearestFrom(vecs, qv, rest, k) ==
    IF k = 0 \/ rest = {} THEN <<>>
    ELSE LET p == CHOOSE x \in rest : \A y \in rest \ {x} : Nearer(vecs, qv, x, y)
         IN  <<[idx |-> p - 1, score |-> L2(qv, vecs[p])]>>
               \o NearestFrom(vecs, qv, rest \ {p}, k - 1)

Min(a, b) == IF a <= b THEN a ELSE b

\* VectorSearchService.search
VectorSearch(ix, query, k, threshold) ==
    IF IsNone(ix) \/ IndexSize(ix) = 0 THEN <<>>
    ELSE LET actual_k == Min(k, IndexSize(ix))
             found == NearestFrom(Val(ix), Embed(query), 1..IndexSize(ix), actual_k)
             filtered(h) == ~IsNone(threshold) /\ Val(threshold) # 0
                              /\ h.score > Val(threshold)
         IN  SelectSeq(found, LAMBDA h : ~filtered(h))

\* The loop of FaissRAGEngine.search that maps the hits to chunk records.
MapHits(hits, docs) ==
    LET kept == SelectSeq(hits, LAMBDA h : h.idx < Len(docs))
    IN  [i \in 1..Len(kept) |->
            [text |-> docs[kept[i].idx + 1].text,
             doc_id |-> docs[kept[i].idx + 1].doc_id,
             chunk_id |-> docs[kept[i].idx + 1].chunk_id,
             score |-> kept[i].score]]

\* search(query) up to the return of vector_search.search: it holds no lock.
SearchReadIndex(query) ==
    /\ s_pc = "idle"
    /\ s_pc' = "mapping"
    /\ s_query' = query
    /\ s_hits' = VectorSearch(index, query, top_k, distance_threshold)
    /\ s_results' = <<>>
    /\ UNCHANGED <<serviceVars, engineVars, managerVars, threadVars>>

\* The rest of search(query): the hits are mapped through self.documents as
\* it is now (the reranker is disabled).
SearchMapAndReturn ==
    /\ s_pc = "mapping"
    /\ reranker_method = "none"
    /\ s_pc' = "idle"
    /\ s_results' = MapHits(s_hits, documents)
    /\ s_hits' = <<>>
    /\ UNCHANGED s_query
    /\ UNCHANGED <<serviceVars, engineVars, managerVars, threadVars>>

\* An engine without persistence and reranker, whose mutations do not fail,
\* and one concurrent caller of search.
InitSearch ==
    /\ Init
    /\ chunk_method = "semantic"
    /\ persist_index = FALSE
    /\ reranker_method = "none"

NextSearch ==
    \/ NextFailureFree
    \/ \E q \in Contents : SearchReadIndex(q)
    \/ SearchMapAndReturn

SpecSearch == InitSearch /\ [][NextSearch]_vars

\* ------------------------------------------------------------------ C5
\* C5: a search that runs concurrently with add, update or remove pairs, in
\* every result it returns, an index position with the chunk whose vector is
\* stored at that position, as one complete state of the engine (the one
\* before or the one after the mutation) does: the score of a result, the
\* distance of the vector at its position, is the distance of its chunk.
SearchPairsPositionWithItsChunk ==
    s_pc = "idle" =>
        \A i \in 1..Len(s_results) :
            s_results[i].score = L2(Embed(s_query), Embed(s_results[i].text))

\* ----------------------------------------------------- DocumentManager
CustomIds == 1..NumCustomIds
\* The ids uuid.uuid4() draws from: as many as the store can hold documents.
UuidPool == (NumCustomIds + 1)..(NumCustomIds + DocumentLimit)

\* str(uuid.uuid4()): an id no document of the store has.
NewUuid(docs) == CHOOSE u \in UuidPool : u \notin DOMAIN docs

\* A digest that keeps only the length of the content.
ContentHashByLength(content) == Len(content)

RECURSIVE ContentHash(_)
\* hashlib.sha256(content.encode()).hexdigest(): a digest that tells the
\* contents apart.
ContentHash(content) ==
    IF content = <<>> THEN 7
    ELSE 31 * ContentHash(SubSeq(content, 1, Len(content) - 1))
           + content[Len(content)]

\* The map docs with the entry id -> doc set.
Put(docs, id, doc) ==
    [k \in DOMAIN docs \cup {id} |-> IF k = id THEN doc ELSE docs[k]]

\* The map docs without the entry of id.
Drop(docs, id) == [k \in DOMAIN docs \ {id} |-> docs[k]]

\* The mutable part of the manager, as the record its operations transform.
ManagerState ==
    [documents |-> m_documents, disk |-> m_disk, exc |-> FALSE, doc_id |-> 0]

\* DocumentManager._save_documents
SaveDocuments(st, fail) ==
    IF fail THEN [st EXCEPT !.exc = TRUE]
    ELSE [st EXCEPT !.disk = Some(st.documents)]

\* DocumentManager.add_document; custom_id is None or <<id>>.
AddDocument(st, content, custom_id, fail) ==
    IF Cardinality(DOMAIN st.documents) >= DocumentLimit
    THEN [st EXCEPT !.exc = TRUE]
    ELSE LET doc_id == IF ~IsNone(custom_id) THEN Val(custom_id)
                       ELSE NewUuid(st.documents)
             content_hash == ContentHash(content)
         IN  IF ~IsNone(custom_id) /\ doc_id \in DOMAIN st.documents
             THEN [st EXCEPT !.exc = TRUE, !.doc_id = doc_id]
             ELSE IF \E k \in DOMAIN st.documents :
                        st.documents[k].content_hash = content_hash
             THEN [st EXCEPT !.exc = TRUE, !.doc_id = doc_id]
             ELSE LET doc == [id |-> doc_id, content |-> content,
                              content_hash |-> content_hash, version |-> 1]
                      s1 == [st EXCEPT !.documents = Put(st.documents, doc_id, doc),
                                       !.doc_id = doc_id]
                  IN  SaveDocuments(s1, fail)

\* DocumentManager.update_document; it returns None for an unknown id.
UpdateDocument(st, doc_id, content, fail) ==
    IF doc_id \notin DOMAIN st.documents THEN [st EXCEPT !.doc_id = doc_id]
    ELSE LET doc == [st.documents[doc_id] EXCEPT
                        !.content = content,
                        !.content_hash = ContentHash(content),
                        !.version = @ + 1]
             s1 == [st EXCEPT !.documents = Put(st.documents, doc_id, doc),
                              !.doc_id = doc_id]
         IN  SaveDocuments(s1, fail)

\* DocumentManager.delete_document; it returns False for an unknown id.
DeleteDocument(st, doc_id, fail) ==
    IF doc_id \in DOMAIN st.documents
    THEN SaveDocuments([st EXCEPT !.documents = Drop(st.documents, doc_id),
                                  !.doc_id = doc_id], fail)
    ELSE [st EXCEPT !.doc_id = doc_id]

\* Writes a manager operation's resulting state back to the variables.
ManagerCommit(st, op, fail) ==
    /\ fail => m_faulty_calls < MaxFaultyCalls
    /\ m_faulty_calls' = IF fail THEN m_faulty_calls + 1 ELSE m_faulty_calls
    /\ m_documents' = st.documents
    /\ m_disk' = st.disk
    /\ m_last' = [op |-> op, doc_id |-> st.doc_id,
                  outcome |-> IF st.exc THEN "raised" ELSE "returned"]

\* A call of add_document(content, custom_id=custom_id).
ManagerAdd(content, custom_id, fail) ==
    /\ m_lock = 0
    /\ ManagerCommit(AddDocument(ManagerState, content, custom_id, fail), "add", fail)
    /\ UNCHANGED <<serviceVars, engineVars, searchVars, threadVars>>

\* A call of update_document(doc_id, content).
ManagerUpdate(doc_id, content, fail) ==
    /\ m_lock = 0
    /\ doc_id \in DOMAIN m_documents => m_documents[doc_id].version < MaxVersion
    /\ ManagerCommit(UpdateDocument(ManagerState, doc_id, content, fail), "update", fail)
    /\ UNCHANGED <<serviceVars, engineVars, searchVars, threadVars>>

\* A call of delete_document(doc_id).
ManagerDelete(doc_id, fail) ==
    /\ m_lock = 0
    /\ ManagerCommit(DeleteDocument(ManagerState, doc_id, fail), "delete", fail)
    /\ UNCHANGED <<serviceVars, engineVars, searchVars, threadVars>>

\* A DocumentManager with one caller at a time; the engine is left alone.
InitManager ==
    /\ Init
    /\ chunk_method = "fixed"
    /\ persist_index = FALSE
    /\ reranker_method = "none"

NextManager ==
    \/ \E c \in Contents, id \in {None} \cup {Some(i) : i \in CustomIds},
          fail \in BOOLEAN : ManagerAdd(c, id, fail)
    \/ \E id \in CustomIds \cup UuidPool, c \in Contents, fail \in BOOLEAN :
          ManagerUpdate(id, c, fail)
    \/ \E id \in CustomIds \cup UuidPool, fail \in BOOLEAN : ManagerDelete(id, fail)

SpecManager == InitManager /\ [][NextManager]_vars

\* ------------------------------------------------------------------ C7
\* C7: no two live documents of the manager have the same content_hash.
NoTwoDocumentsShareHash ==
    \A a, b \in DOMAIN m_documents :
        a # b => m_documents[a].content_hash # m_documents[b].content_hash

\* ------------------------------------------------------------------ C8
\* C8: whenever add_document raises (duplicate custom id, duplicate content,
\* document limit reached, persistence failure) the in-memory document map
\* is what it was before the call.
AddDocumentRaiseChangesNothing ==
    [][(m_last'.op = "add" /\ m_last'.outcome = "raised")
         => m_documents' = m_documents]_vars

\* ------------------------------------------------- concurrent additions
Threads == 1..NumThreads

\* The contents the threads add: pairwise distinct.
ThreadContents == << <<1, 3>>, <<2, 3>>, <<1>>, <<2>>, <<3>>, <<1, 2>> >>
ThreadContent(t) == ThreadContents[((t - 1) % Len(ThreadContents)) + 1]

\* with self._lock: of DocumentManager.add_document
ThreadAcquireManagerLock(t) ==
    /\ t_pc[t] = "start"
    /\ m_lock = 0
    /\ m_lock' = t
    /\ t_pc' = [t_pc EXCEPT ![t] = "in_manager"]
    /\ UNCHANGED <<serviceVars, engineVars, searchVars, managerVars, index_lock, t_doc>>

\* The body of add_document(content) under the lock, and the lock's release.
ThreadManagerAdd(t) ==
    /\ t_pc[t] = "in_manager"
    /\ LET st == AddDocument(ManagerState, ThreadContent(t), None, FALSE)
       IN  /\ ManagerCommit(st, "add", FALSE)
           /\ t_pc' = [t_pc EXCEPT ![t] = IF st.exc THEN "rejected" ELSE "stored"]
           /\ t_doc' = [t_doc EXCEPT ![t] = IF st.exc THEN None ELSE Some(st.doc_id)]
    /\ m_lock' = 0
    /\ UNCHANGED <<serviceVars, engineVars, searchVars, index_lock>>

\* with self._index_lock: of FaissRAGEngine.add_document_to_index
ThreadAcquireIndexLock(t) ==
    /\ t_pc[t] = "stored"
    /\ index_lock = 0
    /\ index_lock' = t
    /\ t_pc' = [t_pc EXCEPT ![t] = "in_engine"]
    /\ UNCHANGED <<serviceVars, engineVars, searchVars, managerVars, m_lock, t_doc>>

\* The body of add_document_to_index(content, doc_id) under the lock, and the
\* lock's release.
ThreadEngineAdd(t) ==
    /\ t_pc[t] = "in_engine"
    /\ LET st == AddDocumentToIndex(EngineState, ThreadContent(t), Val(t_doc[t]), "none")
       IN  /\ Commit(st, "add", Val(t_doc[t]), Len(ChunksOf(ThreadContent(t))), FALSE)
           /\ t_pc' = [t_pc EXCEPT ![t] = IF st.exc THEN "rejected" ELSE "done"]
    /\ index_lock' = 0
    /\ UNCHANGED <<serviceVars, searchVars, managerVars, m_lock, t_doc>>

\* Threads that add one document each to an empty store, without failures;
\* the engine has no persistence and no reranker.
InitThreads ==
    /\ Init
    /\ persist_index = FALSE
    /\ reranker_method = "none"

NextThreads ==
    \E t \in Threads :
        \/ ThreadAcquireManagerLock(t)
        \/ ThreadManagerAdd(t)
        \/ ThreadAcquireIndexLock(t)
        \/ ThreadEngineAdd(t)

SpecThreads == InitThreads /\ [][NextThreads]_vars

\* ------------------------------------------------------------------ C6
AllThreadsFinished == \A t \in Threads : t_pc[t] \in {"done", "rejected"}

\* C6: when the concurrent add_document calls with pairwise distinct
\* contents have finished, each of them has succeeded, the store holds one
\* document per call and no other, each content is stored exactly once, and
\* the chunks of every added document are numbered 0..n-1 without gap or
\* duplicate.
ConcurrentAddsAllStored ==
    AllThreadsFinished =>
        /\ \A t \in Threads : t_pc[t] = "done"
        /\ Cardinality(DOMAIN m_documents) = NumThreads
        /\ \A t \in Threads :
              Cardinality({k \in DOMAIN m_documents :
                              m_documents[k].content = ThreadContent(t)}) = 1
        /\ \A t \in Threads :
              /\ ~IsNone(t_doc[t])
              /\ NumChunksOf(documents, Val(t_doc[t])) = Len(ChunksOf(ThreadContent(t)))
              /\ ChunkIdsOf(documents, Val(t_doc[t]))
                   = 0..(NumChunksOf(documents, Val(t_doc[t])) - 1)

\* All the threads have finished.
ConcurrentAddsAllStoredWitness == AllThreadsFinished /\ Len(documents) >= NumThreads

\* ------------------------------------------------ distance threshold
\* An engine configured with a distance threshold (or none), without
\* persistence and reranker, and one caller of search.
InitVectorSearch ==
    /\ EngineStart
    /\ distance_threshold \in {None, Some(0), Some(4)}
    /\ SearchInit /\ ManagerInit /\ ThreadInit /\ ServiceIdle
    /\ chunk_method = "fixed"
    /\ persist_index = FALSE
    /\ reranker_method = "none"

\* One caller at a time: a mutation starts only when no search is under way.
NextVectorSearch ==
    \/ s_pc = "idle" /\ NextFailureFree
    \/ \E q \in Contents : SearchReadIndex(q)
    \/ SearchMapAndReturn

SpecVectorSearch == InitVectorSearch /\ [][NextVectorSearch]_vars

\* ------------------------------------------------------------------ C11
\* C11: the list vector_search.search hands back has at most min(k, index
\* size) entries, none when there is no index or an empty one, and under
\* every configured distance threshold, 0 included, no entry of it has a
\* distance greater than the threshold.
VectorSearchClampsAndFilters ==
    [][(s_pc = "idle" /\ s_pc' = "mapping")
         => /\ Len(s_hits') <= Min(top_k, IndexSize(index))
            /\ ~IsNone(distance_threshold)
                 => \A i \in 1..Len(s_hits') :
                        s_hits'[i].score <= Val(distance_threshold)]_vars

\* ------------------------------------------------------------ rerankers
\* Scores in [0, 1] are kept in thousandths.
ScoreScale == 1000

\* tokenize_text: the words of more than two characters.
tokenize_text(text) == SelectSeq(text, LAMBDA w : SentLen(w) > 2)

\* model.predict of the cross-encoder: a relevance of the text to the query.
Predict(query, text) == Dot(Embed(query), Embed(text))

\* a / b rounded towards zero.
Quotient(a, b) == IF a >= 0 THEN a \div b ELSE -((-a) \div b)

RECURSIVE SumSeq(_)
SumSeq(xs) == IF xs = <<>> THEN 0 ELSE Head(xs) + SumSeq(Tail(xs))

\* Natural logarithms are computed to four decimals.
LnScale == 10000

RECURSIVE LnSeries(_, _, _)
\* z + z^3/3 + z^5/5 + ... from the term power = z^k on, z and power scaled
\* by LnScale.
LnSeries(z, power, k) ==
    IF power = 0 THEN 0
    ELSE (power \div k) + LnSeries(z, (((power * z) \div LnScale) * z) \div LnScale, k + 2)

\* math.log(a / b) for integers a, b >= 1, in units of 1 / ScoreScale:
\* ln(a/b) = 2 artanh((a - b) / (a + b)).
Ln(a, b) ==
    IF a >= b
    THEN LET z == ((a - b) * LnScale) \div (a + b)
         IN  (2 * LnSeries(z, z, 1) * ScoreScale) \div LnScale
    ELSE LET z == ((b - a) * LnScale) \div (a + b)
         IN  -((2 * LnSeries(z, z, 1) * ScoreScale) \div LnScale)

\* How often word occurs in a tokenized document.
TermFreq(doc, word) == Cardinality({j \in 1..Len(doc) : doc[j] = word})

\* rank_bm25.BM25Okapi(tokenized_corpus).get_scores(tokens), with the
\* library's k1 = 1.5, b = 0.75 and epsilon = 0.25: one score per document of
\* the corpus, in units of 1 / ScoreScale.
Bm25GetScores(corpus, tokens) ==
    LET docs == [i \in 1..Len(corpus) |-> tokenize_text(corpus[i])]
        corpus_size == Len(docs)
        total == SumSeq([i \in 1..corpus_size |-> Len(docs[i])])
        words == UNION {{docs[i][j] : j \in 1..Len(docs[i])} : i \in 1..corpus_size}
        nd(w) == Cardinality({i \in 1..corpus_size : TermFreq(docs[i], w) > 0})
        \* math.log(corpus_size - freq + 0.5) - math.log(freq + 0.5)
        raw_idf(w) == Ln(2 * (corpus_size - nd(w)) + 1, 2 * nd(w) + 1)
        RECURSIVE IdfSum(_)
        IdfSum(ws) == IF ws = {} THEN 0
                      ELSE LET w == CHOOSE x \in ws : TRUE
                           IN  raw_idf(w) + IdfSum(ws \ {w})
        \* epsilon * average_idf
        eps == Quotient(IdfSum(words), 4 * Cardinality(words))
        idf(w) == IF w \notin words THEN 0
                  ELSE IF raw_idf(w) < 0 THEN eps ELSE raw_idf(w)
        \* idf * tf * (k1 + 1) / (tf + k1 * (1 - b + b * doc_len / avgdl))
        term(i, w) ==
            LET tf == TermFreq(docs[i], w)
            IN  IF tf = 0 THEN 0
                ELSE Quotient(idf(w) * 20 * tf * total,
                              8 * tf * total + 3 * total + 9 * Len(docs[i]) * corpus_size)
    IN  [i \in 1..corpus_size |->
            SumSeq([q \in 1..Len(tokens) |-> term(i, tokens[q])])]

RECURSIVE SeqMax(_)
SeqMax(xs) ==
    IF Len(xs) = 1 THEN xs[1]
    ELSE LET m == SeqMax(Tail(xs)) IN IF xs[1] >= m THEN xs[1] ELSE m

RECURSIVE SeqMin(_)
SeqMin(xs) ==
    IF Len(xs) = 1 THEN xs[1]
    ELSE LET m == SeqMin(Tail(xs)) IN IF xs[1] <= m THEN xs[1] ELSE m

\* (scores - scores.min()) / (scores.max() - scores.min())
MinMax(scores) ==
    [i \in 1..Len(scores) |->
        ((scores[i] - SeqMin(scores)) * ScoreScale)
            \div (SeqMax(scores) - SeqMin(scores))]

\* The candidates that pass score_threshold, if one is given.
ApplyThreshold(docs, threshold) ==
    IF IsNone(threshold) THEN docs
    ELSE SelectSeq(docs, LAMBDA d : d.rerank_score >= Val(threshold))

RECURSIVE SortedDescending(_)
\* sorted(results, key=rerank_score, reverse=True): stable.
SortedDescending(docs) ==
    IF docs = <<>> THEN <<>>
    ELSE LET best == CHOOSE i \in 1..Len(docs) :
                        /\ \A j \in 1..Len(docs) :
                              docs[j].rerank_score <= docs[i].rerank_score
                        /\ \A j \in 1..(i - 1) :
                              docs[j].rerank_score < docs[i].rerank_score
         IN  <<docs[best]>>
               \o SortedDescending(SubSeq(docs, 1, best - 1)
                                     \o SubSeq(docs, best + 1, Len(docs)))

\* results[:top_k]
Truncate(docs, k) == SubSeq(docs, 1, Min(k, Len(docs)))

\* The candidates with their scores; pos is the candidate's place in results.
Annotate(results, scores) ==
    [i \in 1..Len(results) |->
        [pos |-> i, text |-> results[i], rerank_score |-> scores[i]]]

\* CrossEncoderReranker.rerank
CrossEncoderRerank(query, results, k, threshold) ==
    IF results = <<>> THEN <<>>
    ELSE LET raw == [i \in 1..Len(results) |-> Predict(query, results[i])]
             scores == IF SeqMax(raw) # SeqMin(raw) THEN MinMax(raw)
                       ELSE [i \in 1..Len(raw) |-> ScoreScale \div 2]
         IN  Truncate(SortedDescending(
                 ApplyThreshold(Annotate(results, scores), threshold)), k)

\* The first place of text in the corpus, 0 when it is not there.
CorpusIndex(corpus, text) ==
    IF \E i \in 1..Len(corpus) : corpus[i] = text
    THEN CHOOSE i \in 1..Len(corpus) :
            corpus[i] = text /\ \A j \in 1..(i - 1) : corpus[j] # text
    ELSE 0

\* BM25Reranker.rerank
Bm25Rerank(corpus, query, results, k, threshold) ==
    IF results = <<>> THEN <<>>
    ELSE LET tokenized_query == tokenize_text(query)
             raw == Bm25GetScores(corpus, tokenized_query)
             bm25_scores == IF SeqMax(raw) # SeqMin(raw) THEN MinMax(raw) ELSE raw
             scores == [i \in 1..Len(results) |->
                          IF CorpusIndex(corpus, results[i]) # 0
                          THEN bm25_scores[CorpusIndex(corpus, results[i])]
                          ELSE 0]
         IN  Truncate(SortedDescending(
                 ApplyThreshold(Annotate(results, scores), threshold)), k)

\* The rerank_score a reranked list gives to text, 0 when it has none.
ScoreOf(reranked, text) ==
    IF \E i \in 1..Len(reranked) : reranked[i].text = text
    THEN (CHOOSE d \in {reranked[i] : i \in 1..Len(reranked)} : d.text = text).rerank_score
    ELSE 0

\* ce_weight and bm25_weight of HybridReranker, in tenths.
ce_weight == 7
bm25_weight == 3

\* HybridReranker.rerank
HybridRerank(corpus, query, results, k, threshold) ==
    IF results = <<>> THEN <<>>
    ELSE LET ce_results == CrossEncoderRerank(query, results, Len(results), None)
             bm25_results == Bm25Rerank(corpus, query, results, Len(results), None)
             scores == [i \in 1..Len(results) |->
                          (ce_weight * ScoreOf(ce_results, results[i])
                             + bm25_weight * ScoreOf(bm25_results, results[i])) \div 10]
         IN  Truncate(SortedDescending(
                 ApplyThreshold(Annotate(results, scores), threshold)), k)

RECURSIVE ISqrtBetween(_, _, _)
\* The integer square root of n, which lies in lo..hi: by bisection.
ISqrtBetween(n, lo, hi) ==
    IF lo = hi THEN lo
    ELSE LET mid == (lo + hi + 1) \div 2
         IN  IF mid * mid <= n THEN ISqrtBetween(n, mid, hi)
             ELSE ISqrtBetween(n, lo, mid - 1)

\* The integer square root of a number up to ScoreScale squared.
ISqrt(n) == ISqrtBetween(n, 0, ScoreScale)

\* np.dot(a, b) / (np.linalg.norm(a) * np.linalg.norm(b)), in thousandths; the
\* embeddings have no negative component.
Cosine(a, b) ==
    ISqrt((ScoreScale * ScoreScale * Dot(a, b) * Dot(a, b)) \div (Dot(a, a) * Dot(b, b)))

\* lambda_param of MMRReranker, in tenths.
lambda_param == 7

\* The MMR score of candidate idx given the candidates selected so far.
MmrScore(results, relevance, selected, idx) ==
    LET sims == [s \in 1..Len(selected) |->
                    Cosine(Embed(results[idx]), Embed(results[selected[s]]))]
        max_sim == IF selected # <<>> THEN SeqMax(sims) ELSE 0
    IN  lambda_param * relevance[idx] - (10 - lambda_param) * max_sim

RECURSIVE MmrSelect(_, _, _, _, _)
\* The selection loop of MMRReranker.rerank: while len(selected) < top_k and
\* remaining, the first candidate of the best MMR score moves to selected.
MmrSelect(results, relevance, selected, remaining, k) ==
    IF Len(selected) >= k \/ remaining = <<>> THEN selected
    ELSE LET score(i) == MmrScore(results, relevance, selected, remaining[i])
             best == CHOOSE i \in 1..Len(remaining) :
                        /\ \A j \in 1..Len(remaining) : score(j) <= score(i)
                        /\ \A j \in 1..(i - 1) : score(j) < score(i)
         IN  MmrSelect(results, relevance, Append(selected, remaining[best]),
                       SubSeq(remaining, 1, best - 1)
                         \o SubSeq(remaining, best + 1, Len(remaining)), k)

\* MMRReranker.rerank
MmrRerank(query, results, k, threshold) ==
    IF results = <<>> THEN <<>>
    ELSE LET relevance == [i \in 1..Len(results) |->
                              Cosine(Embed(query), Embed(results[i]))]
             selected == MmrSelect(results, relevance, <<>>,
                                   [i \in 1..Len(results) |-> i], k)
             reranked == [i \in 1..Len(selected) |->
                             [pos |-> selected[i], text |-> results[selected[i]],
                              rerank_score |-> relevance[selected[i]]]]
         IN  ApplyThreshold(reranked, threshold)

\* The texts of the candidates and of the corpus.
RerankTexts == { <<2>>, <<1, 2>>, <<3>> }

\* The candidate lists: up to MaxCandidates texts, repetitions included.
CandidateLists == UNION {[1..n -> RerankTexts] : n \in 0..MaxCandidates}

\* One call of rerank, of any of the four rerankers, on any input.
RerankInit ==
    /\ rr_pc = "ready"
    /\ rr_method \in {"cross_encoder", "bm25", "hybrid", "mmr"}
    /\ rr_query \in { <<3, 2>>, <<1>> }
    /\ rr_results \in CandidateLists
    /\ rr_corpus \in { << <<2>>, <<1, 2>>, <<3>> >>, << <<1, 2>> >> }
    /\ rr_top_k \in 1..MaxCandidates
    /\ rr_score_threshold \in {None, Some(ScoreScale \div 2)}
    /\ rr_out = <<>>

\* The call returns the list out.
RerankReturn(method, out) ==
    /\ rr_pc = "ready"
    /\ rr_method = method
    /\ rr_pc' = "done"
    /\ rr_out' = out
    /\ UNCHANGED <<rr_method, rr_query, rr_results, rr_corpus, rr_top_k, rr_score_threshold>>
    /\ UNCHANGED <<engineVars, searchVars, managerVars, threadVars, cacheVars>>
    /\ UNCHANGED <<orchVars, webTaskVars, ragTaskVars, chunkerVars, peripheralVars>>

CallCrossEncoderRerank ==
    /\ rr_method = "cross_encoder"
    /\ RerankReturn("cross_encoder",
          CrossEncoderRerank(rr_query, rr_results, rr_top_k, rr_score_threshold))

CallBm25Rerank ==
    /\ rr_method = "bm25"
    /\ RerankReturn("bm25",
          Bm25Rerank(rr_corpus, rr_query, rr_results, rr_top_k, rr_score_threshold))

CallHybridRerank ==
    /\ rr_method = "hybrid"
    /\ RerankReturn("hybrid",
          HybridRerank(rr_corpus, rr_query, rr_results, rr_top_k, rr_score_threshold))

CallMmrRerank ==
    /\ rr_method = "mmr"
    /\ RerankReturn("mmr",
          MmrRerank(rr_query, rr_results, rr_top_k, rr_score_threshold))

InitRerank ==
    CoreAtRest /\ RerankInit /\ CacheInit /\ OrchIdle /\ ChunkerIdle /\ PeripheralIdle

NextRerank ==
    \/ CallCrossEncoderRerank
    \/ CallBm25Rerank
    \/ CallHybridRerank
    \/ CallMmrRerank

SpecRerank == InitRerank /\ [][NextRerank]_vars

\* ------------------------------------------------------------------ C12
\* C12: the list a reranker returns is made of distinct candidates of the
\* given list, has at most top_k entries, is ordered by non-increasing
\* rerank_score, and holds no rerank_score below score_threshold when one is
\* given.
RerankContract ==
    rr_pc = "done" =>
        /\ \A i \in 1..Len(rr_out) :
              /\ rr_out[i].pos \in 1..Len(rr_results)
              /\ rr_out[i].text = rr_results[rr_out[i].pos]
        /\ \A i, j \in 1..Len(rr_out) : i # j => rr_out[i].pos # rr_out[j].pos
        /\ Len(rr_out) <= rr_top_k
        /\ \A i \in 1..(Len(rr_out) - 1) :
              rr_out[i].rerank_score >= rr_out[i + 1].rerank_score
        /\ ~IsNone(rr_score_threshold)
             => \A i \in 1..Len(rr_out) :
                   rr_out[i].rerank_score >= Val(rr_score_threshold)

\* -------------------------------------------------------- SemanticCache
\* The words of a query: 2 stands for 'today', 3 for 'was', 4 for a number.
\* _get_adaptive_ttl: 60 s, 3600 s and 300 s, in units of 60 s scaled down
\* to 1, 3 and 2 ticks of the clock.
TtlCurrent == 1
TtlHistorical == 3
TtlDefault == 2

HasWord(query, w) == \E i \in 1..Len(query) : query[i] = w

\* SemanticCache._get_adaptive_ttl
GetAdaptiveTtl(query) ==
    IF HasWord(query, 2) THEN TtlCurrent
    ELSE IF HasWord(query, 3) THEN TtlHistorical
    ELSE TtlDefault

\* self.threshold (0.95) and the thresholds of _get_similarity_threshold for
\* a query with a digit (0.98) and of more than ten words (0.93), thousandths.
cache_threshold == 950
DigitThreshold == 980
LongThreshold == 930

\* SemanticCache._get_similarity_threshold
GetSimilarityThreshold(query) ==
    IF HasWord(query, 4) THEN DigitThreshold
    ELSE IF Len(query) > 10 THEN LongThreshold
    ELSE cache_threshold

RECURSIVE Md5(_)
\* hashlib.md5(query.encode()).hexdigest()
Md5(query) ==
    IF query = <<>> THEN 5
    ELSE 17 * Md5(SubSeq(query, 1, Len(query) - 1)) + query[Len(query)]

\* SemanticCache._cosine_similarity, in thousandths.
CosineSimilarity(a, b) ==
    IF Dot(a, a) = 0 \/ Dot(b, b) = 0 THEN 0 ELSE Cosine(a, b)

\* current_time - timestamp > ttl
Expired(entry, now) == now - entry.timestamp > entry.ttl

\* query_hash in self.cache
InCache(cache, h) == \E i \in 1..Len(cache) : cache[i].hash = h

\* self.cache[query_hash]
CacheEntry(cache, h) == cache[CHOOSE i \in 1..Len(cache) : cache[i].hash = h]

\* SemanticCache._cleanup_expired: the cache and the embeddings list without
\* the expired entries.
CleanupExpired(cache, embeddings, now) ==
    LET kept == SelectSeq(cache, LAMBDA e : ~Expired(e, now))
    IN  [cache |-> kept,
         embeddings |-> SelectSeq(embeddings, LAMBDA p : InCache(kept, p.hash))]

RECURSIVE BestMatch(_, _, _, _, _)
\* The loop of get over self.embeddings: the first entry of the greatest
\* similarity above 0, as <<hash, similarity>>; best is <<>> when none yet.
BestMatch(cache, embeddings, query_emb, now, best) ==
    IF embeddings = <<>> THEN best
    ELSE LET p == Head(embeddings)
             skip == \/ ~InCache(cache, p.hash)
                     \/ Expired(CacheEntry(cache, p.hash), now)
             similarity == CosineSimilarity(query_emb, p.emb)
             best_similarity == IF best = <<>> THEN 0 ELSE best[2]
         IN  BestMatch(cache, Tail(embeddings), query_emb, now,
                       IF ~skip /\ similarity > best_similarity
                       THEN <<p.hash, similarity>> ELSE best)

\* self.cache[query_hash] = (...): in place when the key is there, else last.
CachePut(cache, entry) ==
    IF InCache(cache, entry.hash)
    THEN [i \in 1..Len(cache) |-> IF cache[i].hash = entry.hash THEN entry ELSE cache[i]]
    ELSE Append(cache, entry)

RECURSIVE SortedByTimestamp(_)
\* sorted(self.cache.items(), key=timestamp): stable.
SortedByTimestamp(cache) ==
    IF cache = <<>> THEN <<>>
    ELSE LET first == CHOOSE i \in 1..Len(cache) :
                         /\ \A j \in 1..Len(cache) : cache[i].timestamp <= cache[j].timestamp
                         /\ \A j \in 1..(i - 1) : cache[j].timestamp > cache[i].timestamp
         IN  <<cache[first]>>
               \o SortedByTimestamp(SubSeq(cache, 1, first - 1)
                                      \o SubSeq(cache, first + 1, Len(cache)))

\* An eviction that takes the entries from the other end of the sorted list.
EvictedHashesNewest(cache) ==
    LET sorted_items == SortedByTimestamp(cache)
        to_remove == (Len(sorted_items) * 2) \div 10
    IN  {sorted_items[i].hash :
            i \in (Len(sorted_items) - to_remove + 1)..Len(sorted_items)}

\* The hashes _evict_oldest removes: the first int(len * 0.2) by timestamp.
EvictedHashes(cache) ==
    LET sorted_items == SortedByTimestamp(cache)
        to_remove == (Len(sorted_items) * 2) \div 10
    IN  {sorted_items[i].hash : i \in 1..to_remove}

\* SemanticCache._evict_oldest
EvictOldest(cache, embeddings) ==
    LET gone == EvictedHashes(cache)
    IN  [cache |-> SelectSeq(cache, LAMBDA e : e.hash \notin gone),
         embeddings |-> SelectSeq(embeddings, LAMBDA p : p.hash \notin gone)]

\* Entries the semantic cache holds before it evicts: 1000 in the source,
\* scaled down to the least capacity of which 20% is a whole entry.
CacheCapacity == 4
\* Longest self.embeddings list the model lets set build.
MaxEmbeddings == CacheCapacity + 1

\* The queries the callers of the cache pass: one more than the cache holds.
CacheQueryList == << <<2>>, <<1, 2>>, <<3>>, <<4>>, <<1>>, <<1, 3>>, <<2, 3>> >>
CacheQueries == {CacheQueryList[i] : i \in 1..(CacheCapacity + 1)}
CacheResults == {1, 2}

\* SemanticCache.set(query, result)
CacheSet(query, result) ==
    /\ Len(c_embeddings) < MaxEmbeddings
    /\ LET query_emb == Embed(query)
           query_hash == Md5(query)
           entry == [hash |-> query_hash, emb |-> query_emb, result |-> result,
                     timestamp |-> c_now, ttl |-> GetAdaptiveTtl(query)]
           cache1 == CachePut(c_cache, entry)
           embeddings1 == Append(c_embeddings, [hash |-> query_hash, emb |-> query_emb])
           after == IF Len(cache1) > CacheCapacity
                    THEN EvictOldest(cache1, embeddings1)
                    ELSE [cache |-> cache1, embeddings |-> embeddings1]
       IN  /\ c_cache' = after.cache
           /\ c_embeddings' = after.embeddings
           /\ c_last' = [op |-> "set", query |-> query, hit |-> FALSE,
                         result |-> result,
                         evicted |-> Len(cache1) - Len(after.cache)]
    /\ UNCHANGED c_now
    /\ UNCHANGED <<engineVars, searchVars, managerVars, threadVars, rerankVars>>
    /\ UNCHANGED <<orchVars, webTaskVars, ragTaskVars, chunkerVars, peripheralVars>>

\* SemanticCache.get(query)
CacheGet(query) ==
    /\ LET cleaned == CleanupExpired(c_cache, c_embeddings, c_now)
           threshold == GetSimilarityThreshold(query)
           best == BestMatch(cleaned.cache, cleaned.embeddings, Embed(query), c_now, <<>>)
           hit == best # <<>> /\ best[2] >= threshold
       IN  /\ c_cache' = cleaned.cache
           /\ c_embeddings' = cleaned.embeddings
           /\ c_last' = [op |-> "get", query |-> query, hit |-> hit,
                         result |-> IF hit THEN CacheEntry(cleaned.cache, best[1]).result
                                    ELSE 0,
                         evicted |-> 0]
    /\ UNCHANGED c_now
    /\ UNCHANGED <<engineVars, searchVars, managerVars, threadVars, rerankVars>>
    /\ UNCHANGED <<orchVars, webTaskVars, ragTaskVars, chunkerVars, peripheralVars>>

\* Time passes.
CacheTick ==
    /\ c_now < MaxTime
    /\ c_now' = c_now + 1
    /\ UNCHANGED <<c_cache, c_embeddings, c_last>>
    /\ UNCHANGED <<engineVars, searchVars, managerVars, threadVars, rerankVars>>
    /\ UNCHANGED <<orchVars, webTaskVars, ragTaskVars, chunkerVars, peripheralVars>>

InitCache ==
    CoreAtRest /\ RerankIdle /\ CacheInit /\ OrchIdle /\ ChunkerIdle /\ PeripheralIdle

\* The queries of the callers that set and get: <<2>> and <<1, 2>> are
\* similar (cosine 0.99), <<3>> and <<4>> have the same embedding.
TtlQueries == { <<2>>, <<1, 2>>, <<3>>, <<4>> }

\* Callers that set and get, while time passes.
NextCache ==
    \/ \E q \in TtlQueries, v \in CacheResults :
          Len(c_embeddings) < MaxTtlSets /\ CacheSet(q, v)
    \/ \E q \in TtlQueries : CacheGet(q)
    \/ CacheTick

SpecCache == InitCache /\ [][NextCache]_vars

\* ------------------------------------------------------------------ C13
\* C13: a get(q) issued while the entry that set(q, v) stored has not expired
\* returns v, whatever other unexpired entries the cache holds; a get(q)
\* issued when that entry has expired returns a miss.
GetReturnsOwnEntryUntilTtl ==
    [][(c_last'.op = "get" /\ c_last' # c_last /\ InCache(c_cache, Md5(c_last'.query)))
         => LET own == CacheEntry(c_cache, Md5(c_last'.query))
            IN  IF Expired(own, c_now)
                THEN ~c_last'.hit
                ELSE c_last'.hit /\ c_last'.result = own.result]_vars

\* Callers that fill the cache beyond its capacity, while time passes.
NextCacheEvict ==
    \/ \E q \in CacheQueries : CacheSet(q, 1)
    \/ CacheTick

SpecCacheEvict == InitCache /\ [][NextCacheEvict]_vars

\* ------------------------------------------------------------------ C14
\* The hashes of the entries of a cache.
CacheHashes(cache) == {cache[i].hash : i \in 1..Len(cache)}

\* C14: after every set the cache holds at most CacheCapacity entries; a set
\* that brings the number of entries to n above the capacity removes, within
\* the call, int(n * 0.2) entries, none of them newer by timestamp than an
\* entry that stays; a set that does not exceed the capacity removes none.
SetKeepsCapacityByEvictingOldest ==
    [][(c_last'.op = "set" /\ (c_embeddings' # c_embeddings \/ c_last' # c_last))
         => LET h == Md5(c_last'.query)
                stamp(x) == IF x = h THEN c_now ELSE CacheEntry(c_cache, x).timestamp
                before == CacheHashes(c_cache) \cup {h}
                removed == before \ CacheHashes(c_cache')
                n == Cardinality(before)
            IN  /\ Len(c_cache') <= CacheCapacity
                /\ CacheHashes(c_cache') \subseteq before
                /\ Cardinality(removed) = IF n > CacheCapacity THEN (n * 2) \div 10 ELSE 0
                /\ \A r \in removed, k \in CacheHashes(c_cache') : stamp(r) <= stamp(k)
                /\ \A i \in 1..Len(c_cache') :
                      c_cache'[i].timestamp = stamp(c_cache'[i].hash)]_vars

\* A set has evicted an entry older than one that stays.
SetKeepsCapacityByEvictingOldestWitness ==
    /\ c_last.op = "set"
    /\ c_last.evicted >= 1
    /\ Len(c_cache) = CacheCapacity
    /\ \E i, j \in 1..Len(c_cache) : c_cache[i].timestamp < c_cache[j].timestamp

\* ====================================================================
\* SearchOrchestrator (orchestration/search.py): parallel_search runs the web
\* path and the vector path as two tasks of one asyncio event loop.  A task
\* keeps the loop until it awaits something that suspends or until it ends; a
\* call of a plain function never gives the loop away.
\* ====================================================================

MaxCalls == 2

nonOrchVars == <<engineVars, searchVars, managerVars, threadVars, rerankVars, cacheVars,
                 chunkerVars, peripheralVars>>

\* The query parallel_search is called with, its two sub_queries, and the
\* web_queries the optimizer's understanding holds.
MainQuery == 1
SubQueries == <<2, 3>>
ExpandedWebQueries == <<1, 2>>

\* The urls web_search.search finds for a web query, and the doc_ids
\* rag_engine.search finds for a query.
WebUrls(wq) == IF wq = 1 THEN <<1, 2>> ELSE <<2, 3>>
RagDocs(sq) == IF sq = 3 THEN <<2, 3>> ELSE <<1, 2>>

\* How a call of a collaborator can end.
WebOutcomes == {"ok", "raise"}
RagOutcomes == {"ok", "empty", "raise"}

\* A list without the later occurrences of an element: the seen-set loops of
\* _search_web (by url) and _search_rag (by doc_id).
RECURSIVE Unique(_, _)
Unique(seq, seen) ==
    IF seq = <<>> THEN <<>>
    ELSE IF Head(seq) \in seen THEN Unique(Tail(seq), seen)
         ELSE <<Head(seq)>> \o Unique(Tail(seq), seen \cup {Head(seq)})

\* unique_results[:5]
FirstFive(seq) == SubSeq(seq, 1, IF Len(seq) < 5 THEN Len(seq) ELSE 5)

\* `if cached:` - a cached list that is neither None nor empty.
CacheHit(cached) == cached # None /\ cached[1] # <<>>

\* The event loop is free and task t is the first of its ready queue.
LoopFree(t) == o_loop = "none" /\ o_ready # <<>> /\ Head(o_ready) = t

\* parallel_search up to its await: both tasks are created, web first, and
\* gather suspends the caller.
ParallelSearch(multi) ==
    /\ o_pc \in {"idle", "returned", "raised"}
    /\ o_loop = "none" /\ o_ready = <<>>
    /\ w_pc \in {"none", "done"}
    /\ r_pc \in {"none", "done", "raised"}
    /\ o_calls < MaxCalls
    /\ o_calls' = o_calls + 1
    /\ o_pc' = "gathering"
    /\ o_multi' = multi
    /\ o_ready' = <<"web", "rag">>
    /\ o_ret' = None
    /\ w_pc' = "created" /\ w_queries' = <<>> /\ w_all' = <<>> /\ w_result' = <<>>
    /\ w_trace' = <<>> /\ w_failed' = {}
    /\ r_pc' = "created" /\ r_queries' = <<>> /\ r_all' = <<>> /\ r_result' = <<>>
    /\ r_failed' = {} /\ r_empty' = {}
    /\ UNCHANGED <<o_cfg, o_loop, o_web_cache, o_rag_cache>>
    /\ UNCHANGED nonOrchVars

\* The loop runs the task of _search_web: web_queries = [query].
WebStart ==
    /\ LoopFree("web") /\ w_pc = "created"
    /\ o_loop' = "web" /\ o_ready' = Tail(o_ready)
    /\ w_queries' = <<MainQuery>>
    /\ w_pc' = IF o_cfg.optimizer # "none" /\ o_cfg.web = "service"
               THEN "expand" ELSE "check_cache"
    /\ UNCHANGED <<o_cfg, o_pc, o_multi, o_calls, o_ret, o_web_cache, o_rag_cache>>
    /\ UNCHANGED <<w_all, w_result, w_trace, w_failed>>
    /\ UNCHANGED ragTaskVars
    /\ UNCHANGED nonOrchVars

\* await self.query_optimizer.understand_query(query): the optimizer is
\* called; QueryOptimizer's method is a plain function, whose dict cannot be
\* awaited (TypeError, caught), a coroutine method suspends the task.
WebExpand ==
    /\ o_loop = "web" /\ w_pc = "expand"
    /\ w_trace' = Append(w_trace, "expand")
    /\ IF o_cfg.optimizer = "sync"
       THEN w_pc' = "check_cache" /\ o_loop' = o_loop
       ELSE w_pc' = "expand_wait" /\ o_loop' = "none"
    /\ UNCHANGED <<o_cfg, o_pc, o_multi, o_calls, o_ready, o_ret, o_web_cache, o_rag_cache>>
    /\ UNCHANGED <<w_queries, w_all, w_result, w_failed>>
    /\ UNCHANGED ragTaskVars
    /\ UNCHANGED nonOrchVars

\* What the web task awaits is done: the task is ready to run again.
WebIoDone ==
    /\ w_pc \in {"expand_wait", "agent_wait"}
    /\ w_pc' = IF w_pc = "expand_wait" THEN "expand_ready" ELSE "agent_ready"
    /\ o_ready' = Append(o_ready, "web")
    /\ UNCHANGED <<o_cfg, o_pc, o_multi, o_calls, o_loop, o_ret, o_web_cache, o_rag_cache>>
    /\ UNCHANGED <<w_queries, w_all, w_result, w_trace, w_failed>>
    /\ UNCHANGED ragTaskVars
    /\ UNCHANGED nonOrchVars

\* The awaited understanding arrives (its web_queries[:2]) or the optimizer
\* raised and web_queries stays [query].
WebExpanded(out) ==
    /\ LoopFree("web") /\ w_pc = "expand_ready"
    /\ o_loop' = "web" /\ o_ready' = Tail(o_ready)
    /\ w_queries' = IF out = "ok" THEN ExpandedWebQueries ELSE <<MainQuery>>
    /\ w_pc' = "check_cache"
    /\ UNCHANGED <<o_cfg, o_pc, o_multi, o_calls, o_ret, o_web_cache, o_rag_cache>>
    /\ UNCHANGED <<w_all, w_result, w_trace, w_failed>>
    /\ UNCHANGED ragTaskVars
    /\ UNCHANGED nonOrchVars

\* cache.get_web_results(query): a hit returns the cached list.
WebCheckCache ==
    /\ o_loop = "web" /\ w_pc = "check_cache"
    /\ w_trace' = Append(w_trace, "cache")
    /\ IF CacheHit(o_web_cache)
       THEN /\ w_result' = o_web_cache[1]
            /\ w_pc' = "done"
            /\ o_loop' = "none"
       ELSE /\ w_result' = w_result
            /\ w_pc' = IF o_cfg.web = "agent" THEN "agent" ELSE "search"
            /\ o_loop' = o_loop
    /\ UNCHANGED <<o_cfg, o_pc, o_multi, o_calls, o_ready, o_ret, o_web_cache, o_rag_cache>>
    /\ UNCHANGED <<w_queries, w_all, w_failed>>
    /\ UNCHANGED ragTaskVars
    /\ UNCHANGED nonOrchVars

\* One turn of the loop over web_queries: web_search.search(wq) extends
\* all_results, or raises and is logged.
WebSearchQuery(out) ==
    /\ o_loop = "web" /\ w_pc = "search" /\ w_queries # <<>>
    /\ w_trace' = Append(w_trace, "search")
    /\ w_queries' = Tail(w_queries)
    /\ IF out = "ok"
       THEN w_all' = w_all \o WebUrls(Head(w_queries)) /\ w_failed' = w_failed
       ELSE w_all' = w_all /\ w_failed' = w_failed \cup {Head(w_queries)}
    /\ UNCHANGED orchVars
    /\ UNCHANGED <<w_pc, w_result>>
    /\ UNCHANGED ragTaskVars
    /\ UNCHANGED nonOrchVars

\* The end of _search_web: a non-empty list is cached, the list is returned.
WebReturn(unique_results) ==
    /\ w_result' = unique_results
    /\ w_pc' = "done"
    /\ o_loop' = "none"
    /\ o_web_cache' = IF unique_results # <<>> THEN Some(unique_results) ELSE o_web_cache

\* After the loop: deduplicate by url, cache, return.
WebDeduplicate ==
    /\ o_loop = "web" /\ w_pc = "search" /\ w_queries = <<>>
    /\ WebReturn(Unique(w_all, {}))
    /\ UNCHANGED <<o_cfg, o_pc, o_multi, o_calls, o_ready, o_ret, o_rag_cache>>
    /\ UNCHANGED <<w_queries, w_all, w_trace, w_failed>>
    /\ UNCHANGED ragTaskVars
    /\ UNCHANGED nonOrchVars

\* The WebSearchAgent branch: the optimizer, if any, is called without await
\* (a coroutine has no .get: AttributeError, caught, no results); then
\* await self.web_search.search(...) suspends the task.
WebAgentSearch ==
    /\ o_loop = "web" /\ w_pc = "agent"
    /\ IF o_cfg.optimizer = "async"
       THEN /\ w_trace' = Append(w_trace, "expand")
            /\ WebReturn(<<>>)
       ELSE /\ w_trace' = IF o_cfg.optimizer = "sync"
                          THEN w_trace \o <<"expand", "search">>
                          ELSE Append(w_trace, "search")
            /\ w_pc' = "agent_wait"
            /\ o_loop' = "none"
            /\ UNCHANGED <<w_result, o_web_cache>>
    /\ UNCHANGED <<o_cfg, o_pc, o_multi, o_calls, o_ready, o_ret, o_rag_cache>>
    /\ UNCHANGED <<w_queries, w_all, w_failed>>
    /\ UNCHANGED ragTaskVars
    /\ UNCHANGED nonOrchVars

\* The agent's dict arrives (its 'results') or the agent raised (no results).
WebAgentDone(out) ==
    /\ LoopFree("web") /\ w_pc = "agent_ready"
    /\ o_ready' = Tail(o_ready)
    /\ WebReturn(IF out = "ok" THEN WebUrls(MainQuery) ELSE <<>>)
    /\ w_failed' = IF out = "ok" THEN w_failed ELSE w_failed \cup {MainQuery}
    /\ UNCHANGED <<o_cfg, o_pc, o_multi, o_calls, o_ret, o_rag_cache>>
    /\ UNCHANGED <<w_queries, w_all, w_trace>>
    /\ UNCHANGED ragTaskVars
    /\ UNCHANGED nonOrchVars

\* The loop runs the task of _search_rag.
RagStart ==
    /\ LoopFree("rag") /\ r_pc = "created"
    /\ o_loop' = "rag" /\ o_ready' = Tail(o_ready)
    /\ r_pc' = "check_cache"
    /\ UNCHANGED <<o_cfg, o_pc, o_multi, o_calls, o_ret, o_web_cache, o_rag_cache>>
    /\ UNCHANGED <<r_queries, r_all, r_result, r_failed, r_empty>>
    /\ UNCHANGED webTaskVars
    /\ UNCHANGED nonOrchVars

\* cache.get_rag_results(query): a hit returns the cached list; on a miss the
\* xAI collection of the domain is tried first, FAISS otherwise.
RagCheckCache ==
    /\ o_loop = "rag" /\ r_pc = "check_cache"
    /\ IF CacheHit(o_rag_cache)
       THEN /\ r_result' = o_rag_cache[1]
            /\ r_pc' = "done"
            /\ o_loop' = "none"
            /\ r_queries' = r_queries
       ELSE /\ r_result' = r_result
            /\ r_pc' = IF o_cfg.xai THEN "xai" ELSE "faiss"
            /\ o_loop' = o_loop
            /\ r_queries' = IF o_multi THEN SubQueries ELSE <<MainQuery>>
    /\ UNCHANGED <<o_cfg, o_pc, o_multi, o_calls, o_ready, o_ret, o_web_cache, o_rag_cache>>
    /\ UNCHANGED <<r_all, r_failed, r_empty>>
    /\ UNCHANGED webTaskVars
    /\ UNCHANGED nonOrchVars

\* await self.xai_collections.query(...) suspends the task.
RagXaiQuery ==
    /\ o_loop = "rag" /\ r_pc = "xai"
    /\ r_pc' = "xai_wait"
    /\ o_loop' = "none"
    /\ UNCHANGED <<o_cfg, o_pc, o_multi, o_calls, o_ready, o_ret, o_web_cache, o_rag_cache>>
    /\ UNCHANGED <<r_queries, r_all, r_result, r_failed, r_empty>>
    /\ UNCHANGED webTaskVars
    /\ UNCHANGED nonOrchVars

\* What the vector task awaits is done: the task is ready to run again.
RagIoDone ==
    /\ r_pc = "xai_wait"
    /\ r_pc' = "xai_ready"
    /\ o_ready' = Append(o_ready, "rag")
    /\ UNCHANGED <<o_cfg, o_pc, o_multi, o_calls, o_loop, o_ret, o_web_cache, o_rag_cache>>
    /\ UNCHANGED <<r_queries, r_all, r_result, r_failed, r_empty>>
    /\ UNCHANGED webTaskVars
    /\ UNCHANGED nonOrchVars

\* The collection's documents are cached and returned; an empty answer or an
\* exception falls back to FAISS.
RagXaiDone(out) ==
    /\ LoopFree("rag") /\ r_pc = "xai_ready"
    /\ o_ready' = Tail(o_ready)
    /\ IF out = "ok"
       THEN /\ r_result' = RagDocs(MainQuery)
            /\ o_rag_cache' = Some(RagDocs(MainQuery))
            /\ r_pc' = "done"
            /\ o_loop' = "none"
       ELSE /\ r_pc' = "faiss"
            /\ o_loop' = "rag"
            /\ UNCHANGED <<r_result, o_rag_cache>>
    /\ UNCHANGED <<o_cfg, o_pc, o_multi, o_calls, o_ret, o_web_cache>>
    /\ UNCHANGED <<r_queries, r_all, r_failed, r_empty>>
    /\ UNCHANGED webTaskVars
    /\ UNCHANGED nonOrchVars

\* self.rag_engine.search(sq), for each of sub_queries[:2] or for the query:
\* its documents extend the results; an exception leaves _search_rag, there
\* is no handler around the call.
RagSearchQuery(out) ==
    /\ o_loop = "rag" /\ r_pc = "faiss" /\ r_queries # <<>>
    /\ IF out = "raise"
       THEN /\ r_pc' = "raised"
            /\ o_loop' = "none"
            /\ r_failed' = r_failed \cup {Head(r_queries)}
            /\ UNCHANGED <<r_queries, r_all, r_empty>>
       ELSE /\ r_queries' = Tail(r_queries)
            /\ r_all' = IF out = "ok" THEN r_all \o RagDocs(Head(r_queries)) ELSE r_all
            /\ r_empty' = IF out = "ok" THEN r_empty ELSE r_empty \cup {Head(r_queries)}
            /\ UNCHANGED <<r_pc, o_loop, r_failed>>
    /\ UNCHANGED <<o_cfg, o_pc, o_multi, o_calls, o_ready, o_ret, o_web_cache, o_rag_cache>>
    /\ UNCHANGED r_result
    /\ UNCHANGED webTaskVars
    /\ UNCHANGED nonOrchVars

\* After the searches: with sub-queries deduplicate by doc_id and keep five;
\* a non-empty list is cached, the list is returned.
RagReturn ==
    /\ o_loop = "rag" /\ r_pc = "faiss" /\ r_queries = <<>>
    /\ LET results == IF o_multi THEN FirstFive(Unique(r_all, {})) ELSE r_all
       IN  /\ r_result' = results
           /\ o_rag_cache' = IF results # <<>> THEN Some(results) ELSE o_rag_cache
    /\ r_pc' = "done"
    /\ o_loop' = "none"
    /\ UNCHANGED <<o_cfg, o_pc, o_multi, o_calls, o_ready, o_ret, o_web_cache>>
    /\ UNCHANGED <<r_queries, r_all, r_failed, r_empty>>
    /\ UNCHANGED webTaskVars
    /\ UNCHANGED nonOrchVars

\* asyncio.gather is done when both tasks are: parallel_search returns the
\* pair of their results.
GatherReturn ==
    /\ o_pc = "gathering" /\ o_loop = "none"
    /\ w_pc = "done" /\ r_pc = "done"
    /\ o_pc' = "returned"
    /\ o_ret' = Some(<<w_result, r_result>>)
    /\ UNCHANGED <<o_cfg, o_multi, o_calls, o_loop, o_ready, o_web_cache, o_rag_cache>>
    /\ UNCHANGED <<webTaskVars, ragTaskVars>>
    /\ UNCHANGED nonOrchVars

\* asyncio.gather passes on the exception of a task as soon as the task has
\* raised: parallel_search raises.
GatherRaise ==
    /\ o_pc = "gathering" /\ o_loop = "none"
    /\ r_pc = "raised"
    /\ o_pc' = "raised"
    /\ UNCHANGED <<o_cfg, o_multi, o_calls, o_loop, o_ready, o_ret, o_web_cache, o_rag_cache>>
    /\ UNCHANGED <<webTaskVars, ragTaskVars>>
    /\ UNCHANGED nonOrchVars

\* The TTL of a cached list (setex) runs out between two calls.
ResultsExpire ==
    /\ o_pc \in {"returned", "raised"}
    /\ \/ o_web_cache # None /\ o_web_cache' = None /\ UNCHANGED o_rag_cache
       \/ o_rag_cache # None /\ o_rag_cache' = None /\ UNCHANGED o_web_cache
    /\ UNCHANGED <<o_cfg, o_pc, o_multi, o_calls, o_loop, o_ready, o_ret>>
    /\ UNCHANGED <<webTaskVars, ragTaskVars>>
    /\ UNCHANGED nonOrchVars

\* The orchestrators that can be constructed: with WebSearchService or a
\* WebSearchAgent, without optimizer, with QueryOptimizer (plain methods) or
\* with an optimizer whose understand_query is a coroutine, with or without
\* an xAI collection for the domain.
OrchConfigs ==
    [web : {"service", "agent"}, optimizer : {"none", "sync", "async"}, xai : BOOLEAN]

InitOrchestrator ==
    /\ CoreAtRest /\ RerankIdle /\ CacheInit /\ ChunkerIdle /\ PeripheralIdle
    /\ o_cfg \in OrchConfigs
    /\ TasksIdle

NextOrchestrator ==
    \/ \E multi \in BOOLEAN : ParallelSearch(multi)
    \/ WebStart
    \/ WebExpand
    \/ WebIoDone
    \/ \E out \in WebOutcomes : WebExpanded(out)
    \/ WebCheckCache
    \/ \E out \in WebOutcomes : WebSearchQuery(out)
    \/ WebDeduplicate
    \/ WebAgentSearch
    \/ \E out \in WebOutcomes : WebAgentDone(out)
    \/ RagStart
    \/ RagCheckCache
    \/ RagXaiQuery
    \/ RagIoDone
    \/ \E out \in RagOutcomes : RagXaiDone(out)
    \/ \E out \in RagOutcomes : RagSearchQuery(out)
    \/ RagReturn
    \/ GatherReturn
    \/ GatherRaise
    \/ ResultsExpire

SpecOrchestrator == InitOrchestrator /\ [][NextOrchestrator]_vars

\* ------------------------------------------------------------------ C15
\* C15: in the web path the cache is consulted before any other step: the
\* first collaborator _search_web uses is the cache, and a call that ended
\* with a cache hit has used neither the query optimizer nor the web search.
CacheConsultedFirst ==
    [][(w_trace' # w_trace /\ w_trace' # <<>>)
         => /\ Head(w_trace') = "cache"
            /\ (w_pc' = "done" /\ w_trace'[Len(w_trace')] = "cache")
                 => /\ w_trace' = <<"cache">>
                    /\ CacheHit(o_web_cache)
                    /\ w_result' = o_web_cache[1]]_vars

\* ------------------------------------------------------------------ C16
\* The results of the queries of a list that are not in a set of failed
\* queries, one after the other.
RECURSIVE Surviving(_, _, _)
Surviving(found, queries, failed) ==
    IF queries = <<>> THEN <<>>
    ELSE (IF Head(queries) \in failed THEN <<>> ELSE found[Head(queries)])
         \o Surviving(found, Tail(queries), failed)

\* Every query the orchestrator passes on.
OrchQueries == {MainQuery} \cup {SubQueries[i] : i \in 1..Len(SubQueries)}

\* The web queries the loop of _search_web has executed.
ExecutedWebQueries ==
    IF Len(SelectSeq(w_trace, LAMBDA e : e = "search")) = 2
    THEN ExpandedWebQueries ELSE <<MainQuery>>

\* C16: a web query or a vector sub-query that raises contributes no results
\* and parallel_search still returns normally: neither a path nor
\* parallel_search ends with an exception, each path returns the results of
\* its remaining queries, and parallel_search returns both paths' results.
QueryFailuresAbsorbed ==
    /\ r_pc # "raised"
    /\ o_pc # "raised"
    /\ (o_cfg.web = "service" /\ w_pc = "done" /\ w_trace[Len(w_trace)] = "search")
         => w_result = Unique(Surviving([q \in OrchQueries |-> WebUrls(q)],
                                        ExecutedWebQueries, w_failed), {})
    /\ (r_pc = "done" /\ r_all # <<>>)
         => LET queries == IF o_multi THEN SubQueries ELSE <<MainQuery>>
                found == Surviving([q \in OrchQueries |-> RagDocs(q)], queries,
                                   r_failed \cup r_empty)
            IN  r_result = IF o_multi THEN FirstFive(Unique(found, {})) ELSE found
    /\ o_pc = "returned" => o_ret = Some(<<w_result, r_result>>)

\* ------------------------------------------------------------------ C17
\* C17: neither path has to finish before the other can start - no path has
\* carried out its retrieval and finished while the other is still waiting to
\* be started; parallel_search returns only after both paths have completed,
\* and it returns the pair of what the web path and the vector path returned,
\* so that an empty list of one path leaves the other's list as it is.
BothPathsStartThenJoin ==
    /\ (w_pc = "done" /\ w_trace[Len(w_trace)] = "search") => r_pc # "created"
    /\ (r_pc = "done" /\ r_all # <<>>) => w_pc # "created"
    /\ o_pc = "returned"
         => /\ w_pc = "done" /\ r_pc = "done"
            /\ o_ret = Some(<<w_result, r_result>>)

\* ====================================================================
\* Persistence of the engine: save_index and load_index on their own, as the
\* application calls them at shutdown and at startup.
\* ====================================================================

\* Points at which load_index can fail; it catches each and returns False:
\*   load_index  faiss.read_index
\*   load_meta   opening or parsing the metadata file
\*   rerank      the reranker constructor in _rebuild_reranker
LoadFaults == {"none", "load_index", "load_meta", "rerank"}

\* VectorSearchService.load_index: the state and whether it returned True.
LoadVectorIndex(st, f) ==
    IF IsNone(st.disk_index) \/ f = "load_index" THEN [st |-> st, ok |-> FALSE]
    ELSE [st |-> [st EXCEPT !.index = Some(Val(st.disk_index)),
                            !.dimension = Some(Dim)],
          ok |-> TRUE]

\* FaissRAGEngine.load_index: the state and whether it returned True.
LoadIndex(st, f) ==
    IF ~persist_index THEN [st |-> st, ok |-> FALSE]
    ELSE LET v == LoadVectorIndex(st, f)
         IN  IF ~v.ok THEN v
             ELSE IF IsNone(v.st.disk_meta) \/ f = "load_meta"
             THEN [st |-> v.st, ok |-> FALSE]
             ELSE LET s1 == [v.st EXCEPT !.documents = Val(v.st.disk_meta)]
                      s2 == RebuildReranker(s1, f)
                  IN  IF s2.exc THEN [st |-> s1, ok |-> FALSE]
                      ELSE [st |-> s2, ok |-> TRUE]

\* A call of save_index() in which the step f fails.
EngineSave(f) ==
    Commit(SaveIndex(EngineState, f), "save", 0, 0, f # "none")

\* A call of load_index() in which the step f fails.
EngineLoad(f) ==
    LET r == LoadIndex(EngineState, f)
    IN  Commit(r.st, "load", 0, IF r.ok THEN 1 ELSE 0, f # "none")

\* The values of reranker.score_threshold: not configured, or 0.3.
ScoreThresholds == {None, Some((3 * ScoreScale) \div 10)}

\* FaissRAGEngine.search as one step: the chunks it returns, in order, or
\* that it raises (a reranker that was never built has no rerank).
EngineSearch(ix, docs, corpus, query, threshold) ==
    LET hits == MapHits(VectorSearch(ix, query, top_k, distance_threshold), docs)
        ids(h) == [doc_id |-> h.doc_id, chunk_id |-> h.chunk_id]
    IN  IF reranker_method = "none" \/ hits = <<>>
        THEN [raised |-> FALSE, results |-> [i \in 1..Len(hits) |-> ids(hits[i])]]
        ELSE IF IsNone(corpus) THEN [raised |-> TRUE, results |-> <<>>]
        ELSE LET reranked == Bm25Rerank(Val(corpus), query, Texts(hits), top_k,
                                        threshold)
             IN  [raised |-> FALSE,
                  results |-> [i \in 1..Len(reranked) |-> ids(hits[reranked[i].pos])]]

\* An engine that persists its index, with fixed chunking, with or without
\* the BM25 reranker: its mutations, any step of which may fail, and calls of
\* save_index and load_index.
InitPersist ==
    /\ Init
    /\ chunk_method = "fixed"
    /\ persist_index = TRUE

NextPersist ==
    \/ \E c \in Contents, d \in DocIds, f \in AddFaults :
          EngineAdd(c, d, f) /\ UNCHANGED <<serviceVars, searchVars, managerVars, threadVars>>
    \/ \E d \in DocIds, c \in Contents, f \in UpdateFaults :
          EngineUpdate(d, c, f, "none")
            /\ UNCHANGED <<serviceVars, searchVars, managerVars, threadVars>>
    \/ \E d \in DocIds, f \in RemoveFaults :
          EngineRemove(d, f) /\ UNCHANGED <<serviceVars, searchVars, managerVars, threadVars>>
    \/ \E f \in SaveFaults :
          EngineSave(f) /\ UNCHANGED <<serviceVars, searchVars, managerVars, threadVars>>
    \/ \E f \in LoadFaults :
          EngineLoad(f) /\ UNCHANGED <<serviceVars, searchVars, managerVars, threadVars>>

SpecPersist == InitPersist /\ [][NextPersist]_vars

\* ------------------------------------------------------------------ C18
\* C18: a load_index that follows a save_index leaves the chunk list and the
\* contents of the index as they were before the save, and search(q) returns
\* the same chunks in the same order as before, for every query q.
SaveThenLoadRestores ==
    [][(e_last.op = "save" /\ e_last.outcome = "returned" /\ e_last'.op = "load")
         => /\ documents' = documents
            /\ IndexVectors(index') = IndexVectors(index)
            /\ \A q \in Contents, th \in ScoreThresholds :
                  EngineSearch(index', documents', reranker_corpus', q, th)
                    = EngineSearch(index, documents, reranker_corpus, q, th)]_vars

\* ====================================================================
\* FixedChunker (core/chunking.py): fixed-size chunking with overlap.  A text
\* is a string over the letter "a" and the space; its words differ by length.
\* ====================================================================

MaxTextLen == 9
MaxChunkSize == 3

RECURSIVE StringsOfLength(_)
StringsOfLength(n) ==
    IF n = 0 THEN {<<>>}
    ELSE {Append(t, c) : t \in StringsOfLength(n - 1), c \in {"a", " "}}

ChunkerTexts == UNION {StringsOfLength(n) : n \in 0..MaxTextLen}

RECURSIVE SplitWords(_, _)
\* text.split(): the maximal runs of letters of text, word being the run read
\* so far.
SplitWords(text, word) ==
    IF text = <<>> THEN (IF word = <<>> THEN <<>> ELSE <<word>>)
    ELSE IF Head(text) = " "
         THEN (IF word = <<>> THEN <<>> ELSE <<word>>) \o SplitWords(Tail(text), <<>>)
         ELSE SplitWords(Tail(text), Append(word, Head(text)))

RECURSIVE JoinWords(_)
\* ' '.join(words)
JoinWords(words) ==
    IF words = <<>> THEN <<>>
    ELSE IF Len(words) = 1 THEN words[1]
    ELSE words[1] \o <<" ">> \o JoinWords(Tail(words))

\* text.strip()
Strip(text) ==
    LET letters == {i \in 1..Len(text) : text[i] # " "}
    IN  IF letters = {} THEN <<>>
        ELSE SubSeq(text, CHOOSE i \in letters : \A j \in letters : i <= j,
                          CHOOSE i \in letters : \A j \in letters : i >= j)

\* A step that ignores the overlap.
FixedStepWithoutOverlap(chunk_size, chunk_overlap) == chunk_size

\* step = max(1, self.chunk_size - self.chunk_overlap)
FixedStep(chunk_size, chunk_overlap) ==
    IF chunk_size - chunk_overlap >= 1 THEN chunk_size - chunk_overlap ELSE 1

RECURSIVE ChunksFrom(_, _, _, _)
\* The loop of chunk from index i (counted from 0) on.
ChunksFrom(words, i, chunk_size, step) ==
    IF i >= Len(words) THEN <<>>
    ELSE LET chunk == JoinWords(SubSeq(words, i + 1, Min(i + chunk_size, Len(words))))
         IN  (IF chunk # <<>> THEN <<chunk>> ELSE <<>>)
               \o (IF i + chunk_size >= Len(words) THEN <<>>
                   ELSE ChunksFrom(words, i + step, chunk_size, step))

\* FixedChunker.chunk
FixedChunk(text, chunk_size, chunk_overlap) ==
    IF Strip(text) = <<>> THEN <<>>
    ELSE LET words == SplitWords(text, <<>>)
         IN  IF words = <<>> THEN <<>>
             ELSE ChunksFrom(words, 0, chunk_size, FixedStep(chunk_size, chunk_overlap))

\* FixedChunker(chunk_size, chunk_overlap)
FixedChunkerNew ==
    /\ fc_pc = "new"
    /\ fc_pc' = IF fc_overlap >= fc_size THEN "raised" ELSE "constructed"
    /\ UNCHANGED <<fc_size, fc_overlap, fc_text, fc_chunks>>
    /\ UNCHANGED <<engineVars, searchVars, managerVars, threadVars>>
    /\ UNCHANGED <<rerankVars, cacheVars, orchVars, webTaskVars, ragTaskVars, peripheralVars>>

\* chunker.chunk(text)
FixedChunkerChunk ==
    /\ fc_pc = "constructed"
    /\ fc_pc' = "chunked"
    /\ fc_chunks' = FixedChunk(fc_text, fc_size, fc_overlap)
    /\ UNCHANGED <<fc_size, fc_overlap, fc_text>>
    /\ UNCHANGED <<engineVars, searchVars, managerVars, threadVars>>
    /\ UNCHANGED <<rerankVars, cacheVars, orchVars, webTaskVars, ragTaskVars, peripheralVars>>

InitChunker ==
    /\ CoreAtRest /\ RerankIdle /\ CacheInit /\ OrchIdle /\ PeripheralIdle
    /\ fc_pc = "new"
    /\ fc_size \in 1..MaxChunkSize
    /\ fc_overlap \in 0..MaxChunkSize
    /\ fc_text \in ChunkerTexts
    /\ fc_chunks = <<>>

NextChunker ==
    \/ FixedChunkerNew
    \/ FixedChunkerChunk

SpecChunker == InitChunker /\ [][NextChunker]_vars

\* ------------------------------------------------------------------ C19
\* The words of a text: its maximal runs of letters, read off position by
\* position.
WordsOf(text) ==
    LET starts == {i \in 1..Len(text) :
                      text[i] # " " /\ (i = 1 \/ text[i - 1] = " ")}
        end(i) == CHOOSE j \in i..Len(text) :
                     /\ \A k \in i..j : text[k] # " "
                     /\ (j = Len(text) \/ text[j + 1] = " ")
        RECURSIVE InOrder(_)
        InOrder(ss) == IF ss = {} THEN <<>>
                       ELSE LET i == CHOOSE x \in ss : \A y \in ss : x <= y
                            IN  <<SubSeq(text, i, end(i))>> \o InOrder(ss \ {i})
    IN  InOrder(starts)

RECURSIVE Reassembled(_, _)
\* The first chunk followed by what each later chunk adds after its first
\* overlap words.
Reassembled(chunks, overlap) ==
    IF chunks = <<>> THEN <<>>
    ELSE IF Len(chunks) = 1 THEN WordsOf(chunks[1])
    ELSE LET front == Reassembled(SubSeq(chunks, 1, Len(chunks) - 1), overlap)
             last == WordsOf(chunks[Len(chunks)])
         IN  front \o SubSeq(last, overlap + 1, Len(last))

\* C19: construction raises exactly when O >= S; for O < S, chunk of a text
\* without words returns no chunks, and of a text of N >= 1 words it returns
\* chunks that cover every word in order, each pair of adjacent chunks
\* sharing exactly O words: the last O words of one are the first O words of
\* the next, and the next goes on from there.
FixedChunkerContract ==
    /\ fc_pc # "new" => (fc_pc = "raised" <=> fc_overlap >= fc_size)
    /\ fc_pc = "chunked" =>
         LET words == WordsOf(fc_text)
             cw(k) == WordsOf(fc_chunks[k])
         IN  IF words = <<>> THEN fc_chunks = <<>>
             ELSE /\ fc_chunks # <<>>
                  /\ Reassembled(fc_chunks, fc_overlap) = words
                  /\ \A k \in 1..(Len(fc_chunks) - 1) :
                        /\ Len(cw(k)) >= fc_overlap
                        /\ Len(cw(k + 1)) > fc_overlap
                        /\ SubSeq(cw(k), Len(cw(k)) - fc_overlap + 1, Len(cw(k)))
                             = SubSeq(cw(k + 1), 1, fc_overlap)

\* A text of five words was cut, with an overlap, into four chunks.
FixedChunkerContractWitness ==
    /\ fc_pc = "chunked"
    /\ fc_overlap >= 1
    /\ Len(WordsOf(fc_text)) = 5
    /\ Len(fc_chunks) = 4

\* ------------------------------------------------------------------ C20
\* The texts the reranker was built from; none when none was built.
CorpusTexts(corpus) == IF IsNone(corpus) THEN <<>> ELSE Val(corpus)

\* C20: with the BM25 reranker enabled, after every add or update, whether
\* it returned or was rolled back, after every remove that returned and
\* after every load_index that returned True, the corpus the reranker holds
\* is the current chunk list.
RerankerCorpusFollowsChunks ==
    [][(/\ reranker_method = "bm25"
        /\ e_last' # e_last
        /\ \/ e_last'.op \in {"add", "update"}
           \/ e_last'.op = "remove" /\ e_last'.outcome = "returned"
           \/ e_last'.op = "load" /\ e_last'.ret = 1)
         => CorpusTexts(reranker_corpus') = Texts(documents')]_vars

\* ------------------------------------------------------------------ C21
\* The chunk list the metadata file holds; none when the file is absent.
DiskChunks(meta) == IF IsNone(meta) THEN <<>> ELSE Val(meta)

\* C21: with persistence enabled, after every add, update and remove,
\* whichever step of it failed, the index file holds exactly one vector per
\* chunk of the metadata file, in the order of the metadata file.
PersistedFilesAgree ==
    persist_index
      => IndexVectors(disk_index) = EmbedAll(Texts(DiskChunks(disk_meta)))

\* ------------------------------------------------------------------ C22
\* config embeddings.chunk_size and embeddings.chunk_overlap, which
\* FaissRAGEngine.__init__ hands to FixedChunker when chunk_method is not
\* 'semantic' (engine.py:73-76); the engine accepts any pair of values.
engine_chunk_size == 5
engine_chunk_overlap == 2

\* Number of words of one sentence, on the scale of engine_chunk_size: the
\* first sentence fits into one chunk, two sentences together do not.
SentWords(s) ==
    CASE s = 1 -> 4
      [] s = 2 -> 2
      [] OTHER -> 6

\* The content as the string FixedChunker.chunk reads: its words, one letter
\* each, separated by single spaces.
ContentString(content) ==
    JoinWords([i \in 1..SumSeq([k \in 1..Len(content) |-> SentWords(content[k])])
                 |-> <<"a">>])

\* Number of chunks self.chunker.chunk(content) returns, self.chunker being
\* the chunker __init__ built: SemanticChunker for chunk_method 'semantic',
\* FixedChunker otherwise (engine.py:66-76).
ChunkerChunkCount(content) ==
    IF chunk_method = "semantic" THEN Len(SemanticChunk(content))
    ELSE Len(FixedChunk(ContentString(content), engine_chunk_size,
                        engine_chunk_overlap))

\* C22: an add that returns has appended to the index and to the chunk list
\* as many entries as the configured chunker makes chunks of the content,
\* and has returned that number; a single chunk is the whole content.
AddAppendsOnePerChunk ==
    [][(e_last'.op = "add" /\ e_last'.outcome = "returned")
         => \E content \in Contents :
               LET n == ChunkerChunkCount(content)
               IN  /\ e_last'.ret = n
                   /\ Len(documents') = Len(documents) + n
                   /\ IndexSize(index') = IndexSize(index) + n
                   /\ SubSeq(documents', 1, Len(documents)) = documents
                   /\ n = 1 => documents'[Len(documents')].text = content]_vars

\* ====================================================================
\* SemanticCache: set, get and clear_expired issued by one caller.
\* ====================================================================

\* SemanticCache.clear_expired()
CacheClearExpired ==
    /\ LET expired == {c_cache[i].hash : i \in {j \in 1..Len(c_cache) :
                                                     Expired(c_cache[j], c_now)}}
       IN  /\ c_cache' = SelectSeq(c_cache, LAMBDA e : e.hash \notin expired)
           /\ c_embeddings' = SelectSeq(c_embeddings, LAMBDA p : p.hash \notin expired)
    /\ c_last' = [op |-> "clear", query |-> <<>>, hit |-> FALSE, result |-> 0,
                  evicted |-> 0]
    /\ UNCHANGED c_now
    /\ UNCHANGED <<engineVars, searchVars, managerVars, threadVars, rerankVars>>
    /\ UNCHANGED <<orchVars, webTaskVars, ragTaskVars, chunkerVars, peripheralVars>>

\* A caller that sets, gets and clears, while time passes.
NextCacheOps ==
    \/ \E q \in TtlQueries, v \in CacheResults :
          Len(c_embeddings) < MaxTtlSets /\ CacheSet(q, v)
    \/ \E q \in TtlQueries : CacheGet(q)
    \/ CacheClearExpired
    \/ CacheTick

SpecCacheOps == InitCache /\ [][NextCacheOps]_vars

\* ------------------------------------------------------------------ C28
\* C28: the embeddings list holds exactly one entry for each key of the cache
\* dictionary, none for any other key, and the embedding of that entry is
\* the one stored with the key.
EmbeddingsMirrorCache ==
    /\ \A i \in 1..Len(c_cache) :
          Cardinality({j \in 1..Len(c_embeddings) :
                          c_embeddings[j].hash = c_cache[i].hash}) = 1
    /\ \A j \in 1..Len(c_embeddings) :
          /\ InCache(c_cache, c_embeddings[j].hash)
          /\ c_embeddings[j].emb = CacheEntry(c_cache, c_embeddings[j].hash).emb

\* ====================================================================
\* WebSearchAgent (orchestration/web_search.py): the stages that follow the
\* fusion of the query results.  A result is a record of what the stages
\* read: the age in days of the publish date _extract_date finds (None when
\* it finds none), the embedding _semantic_rerank stored (None when it
\* stored none) and the domain.
\* ====================================================================

\* Longest result list handed to a stage.
MaxResults == 4

\* timedelta(days=7) and timedelta(days=30) of _filter_by_recency.
RecentDays == 7
PastDays == 30

\* recency_score 1.0 and 0.5, in thousandths.
RecencyDated == 1000
RecencyUndated == 500

RECURSIVE FilteredFrom(_, _)
\* The loop of _filter_by_recency: the results it appends to filtered.
FilteredFrom(results, cutoff) ==
    IF results = <<>> THEN <<>>
    ELSE LET r == Head(results)
             pub_date == r.age
             rest == FilteredFrom(Tail(results), cutoff)
         IN  IF ~IsNone(pub_date) /\ Val(pub_date) < cutoff
             THEN <<[r EXCEPT !.recency_score = Some(RecencyDated)]>> \o rest
             ELSE IF IsNone(pub_date)
             THEN <<[r EXCEPT !.recency_score = Some(RecencyUndated)]>> \o rest
             ELSE rest

\* WebSearchAgent._filter_by_recency
FilterByRecency(results, temporal) ==
    IF temporal = "any" THEN results
    ELSE IF temporal \notin {"recent", "past"} THEN results
    ELSE LET cutoff == IF temporal = "recent" THEN RecentDays ELSE PastDays
             filtered == FilteredFrom(results, cutoff)
         IN  IF filtered # <<>> THEN filtered ELSE results

\* np.dot of two vectors of one length.
NpDot(a, b) == SumSeq([i \in 1..Len(a) |-> a[i] * b[i]])

\* self.deduplication_threshold: 0.9 as the fraction DedupNum / DedupDen.
DedupNum == 9
DedupDen == 10

\* similarity > self.deduplication_threshold, for vectors of norm above 0:
\* dot / (|r| |e|) > DedupNum / DedupDen, compared without rounding.
SimilarityAboveThreshold(r_vec, e_vec) ==
    /\ NpDot(r_vec, e_vec) > 0
    /\ DedupDen * DedupDen * NpDot(r_vec, e_vec) * NpDot(r_vec, e_vec)
         > DedupNum * DedupNum * NpDot(r_vec, r_vec) * NpDot(e_vec, e_vec)

\* The inner loop of _deduplicate_results: is r a duplicate of a kept result.
IsDuplicate(r, deduplicated) ==
    /\ ~IsNone(r.emb)
    /\ NpDot(Val(r.emb), Val(r.emb)) # 0
    /\ \E i \in 1..Len(deduplicated) :
          /\ ~IsNone(deduplicated[i].emb)
          /\ NpDot(Val(deduplicated[i].emb), Val(deduplicated[i].emb)) > 0
          /\ SimilarityAboveThreshold(Val(r.emb), Val(deduplicated[i].emb))

RECURSIVE DedupFrom(_, _)
\* The outer loop of _deduplicate_results over results[1:].
DedupFrom(rest, deduplicated) ==
    IF rest = <<>> THEN deduplicated
    ELSE DedupFrom(Tail(rest),
                   IF IsDuplicate(Head(rest), deduplicated) THEN deduplicated
                   ELSE Append(deduplicated, Head(rest)))

\* min_domains of _enforce_diversity and its cap on the list's length.
min_domains == 3
DiverseLimit == 10

RECURSIVE FirstPass(_, _, _)
\* First pass of _enforce_diversity: a record of the list diverse and of the
\* set domains after the results rest.
FirstPass(rest, diverse, domains) ==
    IF rest = <<>> THEN [diverse |-> diverse, domains |-> domains]
    ELSE LET r == Head(rest)
         IN  IF r.domain \notin domains \/ Cardinality(domains) < min_domains
             THEN IF Len(diverse) + 1 >= DiverseLimit
                  THEN [diverse |-> Append(diverse, r), domains |-> domains \cup {r.domain}]
                  ELSE FirstPass(Tail(rest), Append(diverse, r), domains \cup {r.domain})
             ELSE FirstPass(Tail(rest), diverse, domains)

RECURSIVE SecondPass(_, _)
\* Second pass of _enforce_diversity: fills the remaining slots.
SecondPass(rest, diverse) ==
    IF rest = <<>> THEN diverse
    ELSE LET r == Head(rest)
             present == \E i \in 1..Len(diverse) : diverse[i] = r
         IN  SecondPass(Tail(rest),
                        IF ~present /\ Len(diverse) < DiverseLimit
                        THEN Append(diverse, r) ELSE diverse)

\* WebSearchAgent._enforce_diversity
EnforceDiversity(results) ==
    IF Len(results) <= min_domains THEN results
    ELSE SecondPass(results, FirstPass(results, <<>>, {}).diverse)

\* WebSearchAgent._deduplicate_results, deduplication enabled.
DeduplicateResults(results) ==
    IF Len(results) < 2 THEN results
    ELSE EnforceDiversity(DedupFrom(Tail(results), <<Head(results)>>))

\* max_per_domain of WebSearchService._ensure_diversity.
max_per_domain == 2

RECURSIVE EnsureFrom(_, _)
\* WebSearchService._ensure_diversity: the loop, diverse being the list so far.
EnsureFrom(rest, diverse) ==
    IF rest = <<>> THEN diverse
    ELSE LET r == Head(rest)
             count == Cardinality({i \in 1..Len(diverse) : diverse[i].domain = r.domain})
         IN  EnsureFrom(Tail(rest),
                        IF count < max_per_domain THEN Append(diverse, r) ELSE diverse)

EnsureDiversity(results) == EnsureFrom(results, <<>>)

\* ---- the inputs
\* Ages of the publish date: none found, 3 days, 10 days.
Ages == {None, Some(3), Some(10)}
\* Embeddings: none stored, the zero vector, two vectors of cosine exactly
\* 0.9 ((1,0,0,0) and (9,3,3,1), of norms 1 and 10), one orthogonal to the
\* first, one nearly parallel to it.
Embeddings == {None, Some(<<0, 0, 0, 0>>), Some(<<1, 0, 0, 0>>), Some(<<9, 3, 3, 1>>),
               Some(<<0, 1, 0, 0>>), Some(<<9, 1, 0, 0>>)}
Domains == 1..3

Result(i, age, emb, domain) ==
    [id |-> i, age |-> age, emb |-> emb, domain |-> domain, recency_score |-> None]

ListsOver(S) == UNION {[1..n -> S] : n \in 0..MaxResults}

\* Result lists that differ in the dates, in the embeddings, in the domains.
PipelineInputs ==
    {[i \in DOMAIN f |-> Result(i, f[i], None, i)] : f \in ListsOver(Ages)}
      \cup {[i \in DOMAIN f |-> Result(i, None, f[i], i)] : f \in ListsOver(Embeddings)}
      \cup {[i \in DOMAIN f |-> Result(i, None, None, f[i])] : f \in ListsOver(Domains)}

\* ---- the stages, each applied to the list p_in
Stage(name, out) ==
    /\ p_pc = "input"
    /\ p_pc' = name
    /\ p_out' = out
    /\ UNCHANGED <<p_temporal, p_in>>
    /\ UNCHANGED <<engineVars, searchVars, managerVars, threadVars>>
    /\ UNCHANGED <<rerankVars, cacheVars, orchVars, webTaskVars, ragTaskVars, chunkerVars>>
    /\ UNCHANGED <<retryVars, limiterVars, cacheThreadVars>>

CallFilterByRecency == Stage("filter_by_recency", FilterByRecency(p_in, p_temporal))
CallDeduplicateResults == Stage("deduplicate_results", DeduplicateResults(p_in))
CallEnforceDiversity == Stage("enforce_diversity", EnforceDiversity(p_in))
CallEnsureDiversity == Stage("ensure_diversity", EnsureDiversity(p_in))

InitPipeline ==
    /\ CoreAtRest /\ RerankIdle /\ CacheInit /\ OrchIdle /\ ChunkerIdle
    /\ RetryIdle /\ LimiterIdle /\ CacheThreadsIdle
    /\ p_pc = "input"
    /\ p_temporal \in {"any", "recent", "past", "future"}
    /\ p_in \in PipelineInputs
    /\ p_out = <<>>

NextPipeline ==
    \/ CallFilterByRecency
    \/ CallDeduplicateResults
    \/ CallEnforceDiversity
    \/ CallEnsureDiversity

SpecPipeline == InitPipeline /\ [][NextPipeline]_vars

\* ------------------------------------------------------------------ C25
\* C25: for a query of temporal class "recent", the list the recency filter
\* returns holds no result dated more than RecentDays days ago, holds every
\* undated result of its input, and gives each undated result the
\* recency_score 0.5.
RecentFilterDropsOld ==
    (p_pc = "filter_by_recency" /\ p_temporal = "recent")
      => /\ \A i \in 1..Len(p_out) :
               /\ ~IsNone(p_out[i].age) => Val(p_out[i].age) <= RecentDays
               /\ IsNone(p_out[i].age) => p_out[i].recency_score = Some(RecencyUndated)
         /\ \A j \in 1..Len(p_in) :
               IsNone(p_in[j].age) => \E i \in 1..Len(p_out) : p_out[i].id = p_in[j].id

\* ------------------------------------------------------------------ C26
\* Cosine similarity of two embeddings at or above the threshold.
SimilarityAtLeastDedup(a, b) ==
    /\ NpDot(a, a) > 0 /\ NpDot(b, b) > 0 /\ NpDot(a, b) > 0
    /\ DedupDen * DedupDen * NpDot(a, b) * NpDot(a, b)
         >= DedupNum * DedupNum * NpDot(a, a) * NpDot(b, b)

\* C26: after deduplication no two kept results that both carry embeddings
\* have cosine similarity at or above the threshold, and the result kept of
\* such a pair of the input is the one ranked higher.
DedupKeepsNoSimilarPair ==
    p_pc = "deduplicate_results"
      => /\ \A i, j \in 1..Len(p_out) :
               (i < j /\ ~IsNone(p_out[i].emb) /\ ~IsNone(p_out[j].emb))
                 => ~SimilarityAtLeastDedup(Val(p_out[i].emb), Val(p_out[j].emb))
         /\ \A i \in 1..Len(p_out) : \E j \in 1..Len(p_in) : p_in[j] = p_out[i]
         /\ Len(p_in) >= 1 => (Len(p_out) >= 1 /\ p_out[1] = p_in[1])

\* ------------------------------------------------------------------ C27
\* The domains of a result list.
DomainsOf(results) == {results[i].domain : i \in 1..Len(results)}

\* C27: the list _enforce_diversity returns holds at most max_per_domain
\* results of any one domain and results of at least min_domains domains
\* whenever its input has that many.
DiversityCapsDomains ==
    p_pc = "enforce_diversity"
      => /\ \A d \in Domains :
               Cardinality({i \in 1..Len(p_out) : p_out[i].domain = d}) <= max_per_domain
         /\ Cardinality(DomainsOf(p_in)) >= min_domains
               => Cardinality(DomainsOf(p_out)) >= min_domains

\* The process ends and the application starts again: FaissRAGEngine.__init__
\* builds a new engine (engine.py:125, vector.py:19-20) next to the files the
\* old one left.
EngineRestart ==
    /\ e_last.op # "init"
    /\ documents' = <<>>
    /\ index' = None
    /\ dimension' = None
    /\ reranker_corpus' = None
    /\ e_last' = [op |-> "init", doc_id |-> 0, outcome |-> "returned", ret |-> 0]
    /\ UNCHANGED <<disk_index, disk_meta, chunk_method, persist_index, reranker_method,
                   faulty_calls, distance_threshold>>

\* The persisting engine across restarts of the application: documents are
\* added, any step of which may fail, and load_index is called as at startup.
NextRestart ==
    \/ \E c \in Contents, d \in DocIds, f \in AddFaults :
          EngineAdd(c, d, f) /\ UNCHANGED <<serviceVars, searchVars, managerVars, threadVars>>
    \/ \E f \in LoadFaults :
          EngineLoad(f) /\ UNCHANGED <<serviceVars, searchVars, managerVars, threadVars>>
    \/ EngineRestart /\ UNCHANGED <<serviceVars, searchVars, managerVars, threadVars>>

SpecRestart == InitPersist /\ [][NextRestart]_vars

\* ------------------------------------------------------------------ C29
\* C29: a load_index that returns False, because persistence is disabled or
\* one of the two files is missing or unreadable, leaves the chunk list and
\* the vectors of the in-memory index as they were before the call.  (With
\* no reranker configured these are the only ways load_index returns False.)
LoadFalseChangesNothing ==
    [][(e_last'.op = "load" /\ e_last'.ret = 0 /\ reranker_method = "none")
         => /\ documents' = documents
            /\ IndexVectors(index') = IndexVectors(index)]_vars

(***************************************************************************)
(* WebSearchAgent: how each web query of one search is executed.          *)
(* web_search.search is called with one of two outcomes, "ok" (it returns *)
(* a list of results) or "raise".  WebSearchService.search is a plain     *)
(* function; the agent accepts any service object, so a service whose     *)
(* search is a coroutine function is modelled as well.                    *)
(***************************************************************************)

\* web_queries[:max_queries_per_search], or the sub-queries of _decompose_query
MaxWebQueries == 2

\* _with_retry's default max_retries
max_retries == 3

RECURSIVE Pow2(_)
Pow2(n) == IF n = 0 THEN 1 ELSE 2 * Pow2(n - 1)

ServiceKinds == {"sync", "coroutine"}
SearchOutcomes == {"ok", "raise"}

\* _choose_strategy: "decomposed" when the query holds one of the words
\* and, vs, compare, difference, versus; "parallel" otherwise.
ChooseStrategy(hasCompareWord) ==
    IF hasCompareWord THEN "decomposed" ELSE "parallel"

\* init_web_search_agent(web_search_service, ...)
AgentInit(kind) ==
    /\ ag_pc = "idle"
    /\ ag_service' = kind
    /\ ag_pc' = "ready"
    /\ UNCHANGED <<ag_strategy, ag_todo, ag_attempt, ag_calls, ag_slept, ag_done>>
    /\ UNCHANGED <<engineVars, searchVars, managerVars, threadVars>>
    /\ UNCHANGED <<rerankVars, cacheVars, orchVars, webTaskVars, ragTaskVars, chunkerVars>>
    /\ UNCHANGED <<pipelineVars, limiterVars, cacheThreadVars>>

\* search(): the strategy is chosen and the loop over the queries starts.
AgentSearch(hasCompareWord, n) ==
    /\ ag_pc = "ready"
    /\ ag_strategy' = ChooseStrategy(hasCompareWord)
    /\ ag_todo' = n
    /\ ag_attempt' = 0
    /\ ag_pc' = "attempt"
    /\ UNCHANGED <<ag_service, ag_calls, ag_slept, ag_done>>
    /\ UNCHANGED <<engineVars, searchVars, managerVars, threadVars>>
    /\ UNCHANGED <<rerankVars, cacheVars, orchVars, webTaskVars, ragTaskVars, chunkerVars>>
    /\ UNCHANGED <<pipelineVars, limiterVars, cacheThreadVars>>

\* The loop body of a strategy ends for the current query: its results were
\* merged ("ok") or its except branch logged the failure ("failed").
FinishQuery(calls, status) ==
    /\ ag_done' = Append(ag_done, [calls |-> calls, slept |-> ag_slept, status |-> status])
    /\ ag_todo' = ag_todo - 1
    /\ ag_attempt' = 0
    /\ ag_calls' = <<>>
    /\ ag_slept' = <<>>
    /\ ag_pc' = IF ag_todo = 1 THEN "done" ELSE "attempt"

\* What `await operation()` gives in _with_retry, operation being
\* lambda: self.web_search.search(q, num_results=10).  A plain function has
\* run when operation() returns, and `await` of the list it returned raises
\* TypeError; a coroutine function's coroutine is awaited.
AwaitOperation(out) ==
    IF ag_service = "sync" THEN "raise" ELSE out

\* One pass of _with_retry's loop inside _parallel_search.
RetryAttempt(out) ==
    /\ ag_pc = "attempt"
    /\ ag_strategy = "parallel"
    /\ LET calls == Append(ag_calls, out)
       IN  IF AwaitOperation(out) = "ok"
           THEN FinishQuery(calls, "ok")
           ELSE IF ag_attempt = max_retries - 1
                THEN FinishQuery(calls, "failed")
                ELSE /\ ag_calls' = calls
                     /\ ag_slept' = Append(ag_slept, Pow2(ag_attempt))
                     /\ ag_pc' = "sleeping"
                     /\ UNCHANGED <<ag_todo, ag_attempt, ag_done>>
    /\ UNCHANGED <<ag_service, ag_strategy>>
    /\ UNCHANGED <<engineVars, searchVars, managerVars, threadVars>>
    /\ UNCHANGED <<rerankVars, cacheVars, orchVars, webTaskVars, ragTaskVars, chunkerVars>>
    /\ UNCHANGED <<pipelineVars, limiterVars, cacheThreadVars>>

\* asyncio.sleep(wait_time) ends and the loop goes to the next attempt.
RetryWake ==
    /\ ag_pc = "sleeping"
    /\ ag_attempt' = ag_attempt + 1
    /\ ag_pc' = "attempt"
    /\ UNCHANGED <<ag_service, ag_strategy, ag_todo, ag_calls, ag_slept, ag_done>>
    /\ UNCHANGED <<engineVars, searchVars, managerVars, threadVars>>
    /\ UNCHANGED <<rerankVars, cacheVars, orchVars, webTaskVars, ragTaskVars, chunkerVars>>
    /\ UNCHANGED <<pipelineVars, limiterVars, cacheThreadVars>>

\* The loop body of _decomposed_search: self.web_search.search(sub_q,
\* num_results=10) is called directly, inside try/except.  A coroutine
\* function only returns a coroutine object, which is never awaited, and
\* enumerate() of it raises TypeError.
DirectSearch(out) ==
    /\ ag_pc = "attempt"
    /\ ag_strategy = "decomposed"
    /\ IF ag_service = "sync"
       THEN FinishQuery(<<out>>, IF out = "ok" THEN "ok" ELSE "failed")
       ELSE FinishQuery(<<>>, "failed")
    /\ UNCHANGED <<ag_service, ag_strategy>>
    /\ UNCHANGED <<engineVars, searchVars, managerVars, threadVars>>
    /\ UNCHANGED <<rerankVars, cacheVars, orchVars, webTaskVars, ragTaskVars, chunkerVars>>
    /\ UNCHANGED <<pipelineVars, limiterVars, cacheThreadVars>>

InitRetry == CoreAtRest /\ ServiceIdle

NextRetry ==
    \/ \E kind \in ServiceKinds : AgentInit(kind)
    \/ \E hasCompareWord \in BOOLEAN, n \in 1..MaxWebQueries : AgentSearch(hasCompareWord, n)
    \/ \E out \in SearchOutcomes : RetryAttempt(out)
    \/ RetryWake
    \/ \E out \in SearchOutcomes : DirectSearch(out)

SpecRetry == InitRetry /\ [][NextRetry]_vars

\* The delays _with_retry's contract gives before attempts 2..n: 2^0, 2^1, ...
BackoffDelays(n) == [i \in 1..(n - 1) |-> Pow2(i - 1)]

\* C24: in every strategy each web query is retried after a failure, at most
\* max_retries times, with 2^attempt seconds between the attempts; it ends
\* with the first successful result, and counts as failed only after the
\* last of max_retries attempts has failed.
EveryQueryRetried ==
    \A i \in 1..Len(ag_done) :
        LET q == ag_done[i]
            n == Len(q.calls)
        IN  /\ n \in 1..max_retries
            /\ \A j \in 1..(n - 1) : q.calls[j] = "raise"
            /\ q.slept = BackoffDelays(n)
            /\ q.status = "ok" <=> q.calls[n] = "ok"
            /\ q.status = "failed" => n = max_retries

(***************************************************************************)
(* RateLimiter (services/grok_client.py): coroutines of one event loop    *)
(* call acquire() on one limiter.  A step is what the event loop runs of  *)
(* one coroutine between two suspensions; asyncio.Lock grants the lock    *)
(* first come first served and is not re-entrant.  Time is counted in     *)
(* ticks, the 60-second window being Window ticks long.                   *)
(***************************************************************************)

\* the 60 seconds of acquire(), in ticks
Window == 2

\* requests_per_minute
requests_per_minute == 2

\* Callers start their call at a time up to MaxLimiterTime.
MaxLimiterTime == 3

\* while self.requests and self.requests[0] < now - 60: self.requests.popleft()
RECURSIVE DropOld(_, _)
DropOld(requests, now) ==
    IF requests # <<>> /\ Head(requests) < now - Window
    THEN DropOld(Tail(requests), now)
    ELSE requests

\* wait_time = 60 - (now - self.requests[0])
WaitTime(requests, now) == Window - (now - Head(requests))

\* The body of `async with self.lock`, run by caller c holding the lock, up
\* to its first suspension: either the call sleeps, still holding the lock,
\* or it appends now, leaves the `async with` (the lock is released) and
\* returns.
AcquireBody(c, waiters) ==
    LET requests == DropOld(l_requests, l_now)
    IN  IF Len(requests) >= requests_per_minute /\ WaitTime(requests, l_now) > 0
        THEN /\ l_requests' = requests
             /\ l_lock' = c
             /\ l_waiters' = waiters
             /\ l_pc' = [l_pc EXCEPT ![c] = "sleeping"]
             /\ l_wake' = [l_wake EXCEPT ![c] = l_now + WaitTime(requests, l_now)]
        ELSE /\ l_requests' = Append(requests, l_now)
             /\ l_lock' = 0
             /\ l_waiters' = waiters
             /\ l_pc' = [l_pc EXCEPT ![c] = "returned"]
             /\ UNCHANGED l_wake

\* asyncio.Lock.acquire as `async with self.lock` calls it: the lock is
\* taken at once when it is free and nobody waits for it, and the body
\* runs in the same step; otherwise the caller queues up behind the others.
EnterLock(c) ==
    IF l_lock = 0 /\ l_waiters = <<>>
    THEN AcquireBody(c, l_waiters)
    ELSE /\ l_waiters' = Append(l_waiters, c)
         /\ l_pc' = [l_pc EXCEPT ![c] = "waiting"]
         /\ UNCHANGED <<l_requests, l_lock, l_wake>>

\* GrokClient.chat_completion: await self.rate_limiter.acquire()
LimiterAcquire(c) ==
    /\ l_pc[c] = "idle"
    /\ l_now <= MaxLimiterTime
    /\ EnterLock(c)
    /\ UNCHANGED l_now
    /\ UNCHANGED <<engineVars, searchVars, managerVars, threadVars>>
    /\ UNCHANGED <<rerankVars, cacheVars, orchVars, webTaskVars, ragTaskVars, chunkerVars>>
    /\ UNCHANGED <<pipelineVars, retryVars, cacheThreadVars>>

\* The future caller c is suspended on is done.
CanResume(c) ==
    \/ l_pc[c] = "sleeping" /\ l_now >= l_wake[c]
    \/ l_pc[c] = "waiting" /\ l_lock = 0 /\ l_waiters # <<>> /\ Head(l_waiters) = c

\* The event loop resumes caller c.  After asyncio.sleep the call goes on
\* with `return await self.acquire()`, still inside `async with self.lock`:
\* the inner call enters the lock like any other call.  A caller that was
\* waiting for the lock gets it and runs the body.
LimiterResume(c) ==
    /\ CanResume(c)
    /\ IF l_pc[c] = "sleeping"
       THEN EnterLock(c)
       ELSE AcquireBody(c, Tail(l_waiters))
    /\ UNCHANGED l_now
    /\ UNCHANGED <<engineVars, searchVars, managerVars, threadVars>>
    /\ UNCHANGED <<rerankVars, cacheVars, orchVars, webTaskVars, ragTaskVars, chunkerVars>>
    /\ UNCHANGED <<pipelineVars, retryVars, cacheThreadVars>>

\* time.time() advances; it never stops while a caller sleeps.
LimiterTick ==
    /\ \/ l_now < MaxLimiterTime
       \/ \E c \in Callers : l_pc[c] = "sleeping" /\ l_now < l_wake[c]
    /\ l_now' = l_now + 1
    /\ UNCHANGED <<l_requests, l_lock, l_waiters, l_pc, l_wake>>
    /\ UNCHANGED <<engineVars, searchVars, managerVars, threadVars>>
    /\ UNCHANGED <<rerankVars, cacheVars, orchVars, webTaskVars, ragTaskVars, chunkerVars>>
    /\ UNCHANGED <<pipelineVars, retryVars, cacheThreadVars>>

InitLimiter == CoreAtRest /\ ServiceIdle

NextLimiter ==
    \/ \E c \in Callers : LimiterAcquire(c)
    \/ \E c \in Callers : LimiterResume(c)
    \/ LimiterTick

\* The event loop runs every coroutine whose future is done, and time
\* passes; nothing obliges a coroutine to call acquire.
SpecLimiter ==
    /\ InitLimiter
    /\ [][NextLimiter]_vars
    /\ WF_vars(LimiterTick)
    /\ \A c \in Callers : WF_vars(LimiterResume(c))

\* C30: a call of acquire that found requests_per_minute grants inside the
\* window (it sleeps) eventually returns, and so does every caller waiting
\* on the same limiter.
WaitingCallersReturn ==
    \A c \in Callers : (l_pc[c] \in {"sleeping", "waiting"}) ~> (l_pc[c] = "returned")

(***************************************************************************)
(* SemanticCache called from several threads.  The class holds no lock;   *)
(* the interpreter may switch threads between any two accesses of         *)
(* self.cache and self.embeddings.  A step below is one such access,      *)
(* together with the computation on local variables that follows it; the  *)
(* loop of get over self.embeddings is taken as one step.                 *)
(***************************************************************************)

\* Calls the threads make all together.
MaxCacheCalls == 3

\* Both queries are stored with the ttl of current events.
ThreadQueries == { <<2>>, <<1, 2>> }

\* set(query, result) run alone at time now.
SetAlone(cache, embeddings, query, result, now) ==
    LET entry == [hash |-> Md5(query), emb |-> Embed(query), result |-> result,
                  timestamp |-> now, ttl |-> GetAdaptiveTtl(query)]
        cache1 == CachePut(cache, entry)
        embeddings1 == Append(embeddings, [hash |-> entry.hash, emb |-> entry.emb])
    IN  IF Len(cache1) > CacheCapacity
        THEN EvictOldest(cache1, embeddings1)
        ELSE [cache |-> cache1, embeddings |-> embeddings1]

\* get(query) run alone at time now: the state it leaves and what it
\* returns, 0 standing for None.
GetAlone(cache, embeddings, query, now) ==
    LET cleaned == CleanupExpired(cache, embeddings, now)
        best == BestMatch(cleaned.cache, cleaned.embeddings, Embed(query), now, <<>>)
        hit == best # <<>> /\ best[2] >= GetSimilarityThreshold(query)
    IN  [cache |-> cleaned.cache, embeddings |-> cleaned.embeddings,
         result |-> IF hit THEN CacheEntry(cleaned.cache, best[1]).result ELSE 0]

\* The call of thread t takes effect, alone, on state x at time now.
ApplyAlone(x, t, call, now) ==
    IF call.op = "set"
    THEN LET after == SetAlone(x.cache, x.embeddings, call.query, call.result, now)
         IN  LinState(after.cache, after.embeddings, x.done \cup {t})
    ELSE LET after == GetAlone(x.cache, x.embeddings, call.query, now)
         IN  LinState(after.cache, after.embeddings, x.done \cup {t})

\* The threads whose running call has not taken effect in x.
NotApplied(x, calls) ==
    {t \in CacheThreads : calls[t].outcome = "running" /\ t \notin x.done}

RECURSIVE LinClosure(_, _, _, _)
\* Every state the running calls can give from the states of lin when they
\* take effect one at a time, in any order, at time now.
LinClosure(lin, calls, now, rounds) ==
    IF rounds = 0 THEN lin
    ELSE LinClosure(lin \cup UNION {{ApplyAlone(x, t, calls[t], now) : t \in NotApplied(x, calls)} : x \in lin},
                    calls, now, rounds - 1)

\* The call of thread t returned: the states in which it took effect.
LinReturn(lin, t) ==
    {LinState(x.cache, x.embeddings, x.done \ {t}) : x \in {y \in lin : t \in y.done}}

\* A thread starts a call.
StartCall(t, call, pc, locals) ==
    /\ ct_pc[t] = "idle"
    /\ ct_calls < MaxCacheCalls
    /\ ct_calls' = ct_calls + 1
    /\ ct_call' = [ct_call EXCEPT ![t] = call]
    /\ ct_pc' = [ct_pc EXCEPT ![t] = pc]
    /\ ct_local' = [ct_local EXCEPT ![t] = locals]
    /\ ct_lin' = LinClosure(ct_lin, ct_call', c_now, NumCacheThreads)

\* The call of thread t goes on to pc.
Goto(t, pc, locals) ==
    /\ ct_pc' = [ct_pc EXCEPT ![t] = pc]
    /\ ct_local' = [ct_local EXCEPT ![t] = locals]
    /\ UNCHANGED <<ct_call, ct_lin, ct_calls>>

\* The call of thread t returns result.
ReturnCall(t, result) ==
    /\ ct_pc' = [ct_pc EXCEPT ![t] = "idle"]
    /\ ct_local' = [ct_local EXCEPT ![t] = NoLocals]
    /\ ct_call' = [ct_call EXCEPT ![t].outcome = "returned", ![t].result = result]
    /\ ct_lin' = LinReturn(ct_lin, t)
    /\ UNCHANGED ct_calls

\* The call of thread t raises KeyError.
RaiseCall(t) ==
    /\ ct_pc' = [ct_pc EXCEPT ![t] = "idle"]
    /\ ct_local' = [ct_local EXCEPT ![t] = NoLocals]
    /\ ct_call' = [ct_call EXCEPT ![t].outcome = "raised"]
    /\ ct_lin' = {}
    /\ UNCHANGED ct_calls

\* get -> _cleanup_expired: list(self.cache.items()) and the loop that
\* collects expired_hashes from this copy.
ThreadGet(t, query) ==
    /\ LET expired == SelectSeq(c_cache, LAMBDA e : Expired(e, c_now))
           hashes == [i \in 1..Len(expired) |-> expired[i].hash]
       IN  StartCall(t, [op |-> "get", query |-> query, result |-> 0, outcome |-> "running"],
                     IF hashes = <<>> THEN "scan" ELSE "delete",
                     [NoLocals EXCEPT !.todo = hashes,
                                      !.expired = {hashes[i] : i \in 1..Len(hashes)}])
    /\ UNCHANGED cacheVars
    /\ UNCHANGED <<engineVars, searchVars, managerVars, threadVars, rerankVars>>
    /\ UNCHANGED <<orchVars, webTaskVars, ragTaskVars, chunkerVars>>
    /\ UNCHANGED <<pipelineVars, retryVars, limiterVars>>

\* _cleanup_expired: del self.cache[query_hash] for the next expired hash;
\* KeyError when the key is not there any more.
ThreadDelete(t) ==
    /\ ct_pc[t] = "delete"
    /\ LET query_hash == Head(ct_local[t].todo)
           rest == Tail(ct_local[t].todo)
       IN  IF InCache(c_cache, query_hash)
           THEN /\ c_cache' = SelectSeq(c_cache, LAMBDA e : e.hash # query_hash)
                /\ Goto(t, IF rest = <<>> THEN "read" ELSE "delete",
                        [ct_local[t] EXCEPT !.todo = rest])
           ELSE /\ RaiseCall(t)
                /\ UNCHANGED c_cache
    /\ UNCHANGED <<c_embeddings, c_now, c_last>>
    /\ UNCHANGED <<engineVars, searchVars, managerVars, threadVars, rerankVars>>
    /\ UNCHANGED <<orchVars, webTaskVars, ragTaskVars, chunkerVars>>
    /\ UNCHANGED <<pipelineVars, retryVars, limiterVars>>

\* _cleanup_expired: the list comprehension reads self.embeddings.
ThreadFilterRead(t) ==
    /\ ct_pc[t] = "read"
    /\ Goto(t, "write",
            [ct_local[t] EXCEPT !.read = SelectSeq(c_embeddings,
                                    LAMBDA p : p.hash \notin ct_local[t].expired)])
    /\ UNCHANGED cacheVars
    /\ UNCHANGED <<engineVars, searchVars, managerVars, threadVars, rerankVars>>
    /\ UNCHANGED <<orchVars, webTaskVars, ragTaskVars, chunkerVars>>
    /\ UNCHANGED <<pipelineVars, retryVars, limiterVars>>

\* _cleanup_expired: self.embeddings = the filtered list.
ThreadFilterWrite(t) ==
    /\ ct_pc[t] = "write"
    /\ c_embeddings' = ct_local[t].read
    /\ Goto(t, "scan", [ct_local[t] EXCEPT !.read = <<>>])
    /\ UNCHANGED <<c_cache, c_now, c_last>>
    /\ UNCHANGED <<engineVars, searchVars, managerVars, threadVars, rerankVars>>
    /\ UNCHANGED <<orchVars, webTaskVars, ragTaskVars, chunkerVars>>
    /\ UNCHANGED <<pipelineVars, retryVars, limiterVars>>

\* get: the loop over self.embeddings; None is returned when no entry
\* reaches the threshold.
ThreadScan(t) ==
    /\ ct_pc[t] = "scan"
    /\ LET query == ct_call[t].query
           best == BestMatch(c_cache, c_embeddings, Embed(query), c_now, <<>>)
       IN  IF best # <<>> /\ best[2] >= GetSimilarityThreshold(query)
           THEN Goto(t, "fetch", [ct_local[t] EXCEPT !.best = best])
           ELSE ReturnCall(t, 0)
    /\ UNCHANGED cacheVars
    /\ UNCHANGED <<engineVars, searchVars, managerVars, threadVars, rerankVars>>
    /\ UNCHANGED <<orchVars, webTaskVars, ragTaskVars, chunkerVars>>
    /\ UNCHANGED <<pipelineVars, retryVars, limiterVars>>

\* get: cached_data = self.cache[best_match]; KeyError when the key is not
\* there any more.
ThreadFetch(t) ==
    /\ ct_pc[t] = "fetch"
    /\ LET best_match == ct_local[t].best[1]
       IN  IF InCache(c_cache, best_match)
           THEN ReturnCall(t, CacheEntry(c_cache, best_match).result)
           ELSE RaiseCall(t)
    /\ UNCHANGED cacheVars
    /\ UNCHANGED <<engineVars, searchVars, managerVars, threadVars, rerankVars>>
    /\ UNCHANGED <<orchVars, webTaskVars, ragTaskVars, chunkerVars>>
    /\ UNCHANGED <<pipelineVars, retryVars, limiterVars>>

\* set: self.cache[query_hash] = (query_emb, result, time.time(), ttl)
ThreadSet(t, query, result) ==
    /\ StartCall(t, [op |-> "set", query |-> query, result |-> result, outcome |-> "running"],
                 "append", NoLocals)
    /\ c_cache' = CachePut(c_cache, [hash |-> Md5(query), emb |-> Embed(query),
                                     result |-> result, timestamp |-> c_now,
                                     ttl |-> GetAdaptiveTtl(query)])
    /\ UNCHANGED <<c_embeddings, c_now, c_last>>
    /\ UNCHANGED <<engineVars, searchVars, managerVars, threadVars, rerankVars>>
    /\ UNCHANGED <<orchVars, webTaskVars, ragTaskVars, chunkerVars>>
    /\ UNCHANGED <<pipelineVars, retryVars, limiterVars>>

\* set: self.embeddings.append((query_hash, query_emb)), and _evict_oldest
\* when the cache holds more than its capacity.
ThreadAppend(t) ==
    /\ ct_pc[t] = "append"
    /\ LET query == ct_call[t].query
           embeddings1 == Append(c_embeddings, [hash |-> Md5(query), emb |-> Embed(query)])
           after == IF Len(c_cache) > CacheCapacity
                    THEN EvictOldest(c_cache, embeddings1)
                    ELSE [cache |-> c_cache, embeddings |-> embeddings1]
       IN  /\ c_cache' = after.cache
           /\ c_embeddings' = after.embeddings
    /\ ReturnCall(t, 0)
    /\ UNCHANGED <<c_now, c_last>>
    /\ UNCHANGED <<engineVars, searchVars, managerVars, threadVars, rerankVars>>
    /\ UNCHANGED <<orchVars, webTaskVars, ragTaskVars, chunkerVars>>
    /\ UNCHANGED <<pipelineVars, retryVars, limiterVars>>

\* Time passes; a running call may take effect at the new time as well.
ThreadTick ==
    /\ c_now < MaxTime
    /\ c_now' = c_now + 1
    /\ ct_lin' = LinClosure(ct_lin, ct_call, c_now', NumCacheThreads)
    /\ UNCHANGED <<c_cache, c_embeddings, c_last>>
    /\ UNCHANGED <<ct_pc, ct_call, ct_local, ct_calls>>
    /\ UNCHANGED <<engineVars, searchVars, managerVars, threadVars, rerankVars>>
    /\ UNCHANGED <<orchVars, webTaskVars, ragTaskVars, chunkerVars>>
    /\ UNCHANGED <<pipelineVars, retryVars, limiterVars>>

InitCacheThreads == CoreAtRest /\ ServiceIdle

NextCacheThreads ==
    \/ \E t \in CacheThreads, q \in ThreadQueries : ThreadGet(t, q)
    \/ \E t \in CacheThreads : ThreadDelete(t)
    \/ \E t \in CacheThreads : ThreadFilterRead(t)
    \/ \E t \in CacheThreads : ThreadFilterWrite(t)
    \/ \E t \in CacheThreads : ThreadScan(t)
    \/ \E t \in CacheThreads : ThreadFetch(t)
    \/ \E t \in CacheThreads, q \in ThreadQueries, v \in CacheResults : ThreadSet(t, q, v)
    \/ \E t \in CacheThreads : ThreadAppend(t)
    \/ ThreadTick

SpecCacheThreads == InitCacheThreads /\ [][NextCacheThreads]_vars

\* No call of get or set has raised.
NoCallRaised == \A t \in CacheThreads : ct_call[t].outcome # "raised"

\* The items of self.cache.
DictItems(cache) == {cache[i] : i \in 1..Len(cache)}

\* With no call running, the cache is in a state that the calls made so
\* far give when they run one at a time in some order, each at a time
\* between its start and its return.
\* (self.cache is compared as Python compares dicts, whatever the order of
\* insertion; self.embeddings as a list.)
SomeSequentialOrder ==
    (\A t \in CacheThreads : ct_pc[t] = "idle")
        => \E x \in ct_lin : /\ DictItems(x.cache) = DictItems(c_cache)
                              /\ x.embeddings = c_embeddings

\* C23: get and set calls issued concurrently never raise, and leave the
\* cache in a state that some sequential order of the same calls could have
\* produced.
ConcurrentCallsSafe == NoCallRaised /\ SomeSequentialOrder

====
